---- MODULE Spec2Model ----
(***************************************************************************)
(* A state-machine model of the NES emulator core: the 6502 CPU            *)
(* (cpu.cpp), the bus (bus.cpp), the PPU register file and timing grid     *)
(* (ppu.cpp), the APU frame sequencer (apu.cpp), the MMC3 IRQ registers    *)
(* (mapper_mmc3.cpp) and the frame scheduler NES::runFrame (nes.cpp).      *)
(*                                                                         *)
(* Machine operations are written as operators on a machine record         *)
(*   m = [cpu, ram, ppu, oam, apu, map]                                    *)
(* and return the machine after the operation; the actions below apply     *)
(* them to the variables.                                                  *)
(***************************************************************************)
EXTENDS Integers, Sequences, FiniteSets, TLC

VARIABLES
    cpu,      \* CPU registers and interrupt latches              (cpu.h)
    sysRAM,   \* the 2 KiB internal RAM, a static array of bus.cpp (bus.cpp:11)
    ppu,      \* PPU registers, scroll latches and timing state   (ppu.h)
    oam,      \* primary OAM, 256 bytes                           (ppu.h:17)
    apu,      \* APU frame sequencer and IRQ flags                (apu.h)
    mapper,   \* cartridge mapper kind and MMC3 IRQ registers     (mapper_mmc3.h)
    prg,      \* what the cartridge returns on CPU reads: address -> byte
    nes,      \* NES::runFrame: position in the loop, locals, nmiLinePrev
    obs       \* observations of the run (counters and the last step taken)

vars == <<cpu, sysRAM, ppu, oam, apu, mapper, prg, nes, obs>>

(***************************************************************************)
(* Bounds of the model                                                     *)
(***************************************************************************)
\* calls of NES::runFrame made by the host loop in SpecFrame
MaxFrames == 2
\* calls of CPU::step that fetch or enter an interrupt, in SpecCpu
MaxSteps == 5

(***************************************************************************)
(* Fixed-width arithmetic                                                  *)
(***************************************************************************)
TestBit(x, n) == (x \div (2 ^ n)) % 2 = 1
SetBit(x, n) == IF TestBit(x, n) THEN x ELSE x + 2 ^ n
ClrBit(x, n) == IF TestBit(x, n) THEN x - 2 ^ n ELSE x
\* the n-bit field of x that starts at bit lo, and x with that field replaced
Field(x, lo, n) == (x \div (2 ^ lo)) % (2 ^ n)
WithField(x, lo, n, f) == x - Field(x, lo, n) * (2 ^ lo) + (f % (2 ^ n)) * (2 ^ lo)
U8(x) == x % 256
U16(x) == x % 65536
Word(lo, hi) == lo + 256 * hi

(***************************************************************************)
(* CPU flags (cpu.h, enum Flag)                                            *)
(***************************************************************************)
FlagC == 0
FlagZ == 1
FlagI == 2
FlagD == 3
FlagB == 4
FlagU == 5
FlagV == 6
FlagN == 7

getf(c, f) == TestBit(c.P, f)
setf(c, f, v) == [c EXCEPT !.P = IF v THEN SetBit(@, f) ELSE ClrBit(@, f)]
setZN(c, v) == setf(setf(c, FlagZ, v = 0), FlagN, v >= 128)

(***************************************************************************)
(* Interrupt vectors and the PPU timing grid                               *)
(***************************************************************************)
NMIVector == 65530      \* $FFFA
ResetVector == 65532    \* $FFFC
IRQVector == 65534      \* $FFFE
LastDot == 340
LastScanline == 261
VBlankScanline == 241
HEIGHT == 240
OddSkipDot == 339
SpriteEvalDot == 65
SpriteRenderDot == 257
DmaStall == 513
A12Filter == 8
A12LowCap == 64

(***************************************************************************)
(* PPU (ppu.cpp)                                                           *)
(***************************************************************************)
nmi_output(p) == TestBit(p.PPUCTRL, 7)
renderingEnabled(p) == Field(p.PPUMASK, 3, 2) # 0

\* (PPUCTRL & 0x04) ? 32 : 1
incrementVRAMAddr(p) == IF TestBit(p.PPUCTRL, 2) THEN 32 ELSE 1

\* vram and palette are kept as the functions of their non-zero cells.
CellRead(mem, i) == IF i \in DOMAIN mem THEN mem[i] ELSE 0
CellWrite(mem, i, v) ==
    LET d == IF v = 0 THEN DOMAIN mem \ {i} ELSE DOMAIN mem \cup {i}
    IN  [x \in d |-> IF x = i THEN v ELSE mem[x]]

\* mapNT: the cell of vram behind a nametable address $2000-$3EFF.
mapNT(a, mir) ==
    LET nt == (a - 8192) % 4096
        table == nt \div 1024
        off == nt % 1024
    IN  CASE mir = 0 -> (IF table >= 2 THEN 1024 ELSE 0) + off
          [] mir = 1 -> (IF table % 2 = 1 THEN 1024 ELSE 0) + off
          [] mir = 2 -> off
          [] mir = 3 -> 1024 + off
          [] mir = 4 -> table * 1024 + off
          [] OTHER -> (IF table % 2 = 1 THEN 1024 ELSE 0) + off

\* The palette cell behind $3F00-$3FFF: $10/$14/$18/$1C mirror $00/$04/$08/$0C.
PaletteCell(a) ==
    LET q == (a - 16128) % 32 IN IF q \in {16, 20, 24, 28} THEN q - 16 ELSE q

\* MapperNROM::ppuRead: the CHR ROM of the cartridges, the same in both
\* pattern tables.  Tile 1 is solid (both planes $FF), tile 3 has plane 0
\* set in its right half, every other tile is blank.
ChrRom(a) ==
    IF (a % 4096) \div 16 = 1 THEN 255
    ELSE IF (a % 4096) \div 16 = 3 /\ a % 16 < 8 THEN 15
    ELSE 0

\* PPU::ppuRead
ppuRead(m, addr) ==
    LET a == addr % 16384 IN
    IF a < 8192 THEN ChrRom(a)
    ELSE IF a < 16128 THEN CellRead(m.ppu.vram, mapNT(a, m.map.mir))
    ELSE CellRead(m.ppu.palette, PaletteCell(a)) % 64

\* PPU::ppuWrite.  Writes to the CHR ROM are ignored.
ppuWrite(m, addr, val) ==
    LET a == addr % 16384 IN
    IF a < 8192 THEN m
    ELSE IF a < 16128 THEN [m EXCEPT !.ppu.vram = CellWrite(@, mapNT(a, m.map.mir), val)]
    ELSE [m EXCEPT !.ppu.palette = CellWrite(@, PaletteCell(a), val)]

\* The result of a read of PPUDATA that finds the byte now at v: that byte.
DataReadUnbuffered(m, now) ==
    [val |-> now,
     m   |-> [m EXCEPT !.ppu.vramReadBuffer = now,
                       !.ppu.v = (@ + incrementVRAMAddr(m.ppu)) % 32768]]

\* The result of a read of PPUDATA that finds the byte now at v: the buffer
\* as it was, or that byte when v is in the palette range; the buffer takes
\* the byte and v advances.
DataReadBuffered(m, now) ==
    [val |-> IF m.ppu.v % 16384 >= 16128 THEN now ELSE m.ppu.vramReadBuffer,
     m   |-> [m EXCEPT !.ppu.vramReadBuffer = now,
                       !.ppu.v = (@ + incrementVRAMAddr(m.ppu)) % 32768]]

\* PPU::cpuReadRegister case 7
PpuDataRead(m) == DataReadBuffered(m, ppuRead(m, m.ppu.v))

\* PPU::cpuReadRegister where a read of $2002 leaves the write toggle alone.
cpuReadRegisterKeepsToggle(m, addr) ==
    LET r == addr % 8 IN
    IF r = 2 THEN
        [val |-> m.ppu.PPUSTATUS,
         m   |-> [m EXCEPT !.ppu.PPUSTATUS = ClrBit(@, 7),
                           !.ppu.nmi_occurred = FALSE]]
    ELSE IF r = 4 THEN [val |-> m.oam[m.ppu.OAMADDR + 1], m |-> m]
    ELSE IF r = 7 THEN PpuDataRead(m)
    ELSE [val |-> 0, m |-> m]

\* PPU::cpuReadRegister.  Returns the byte read and the machine after the
\* read.
cpuReadRegister(m, addr) ==
    LET r == addr % 8 IN
    IF r = 2 THEN
        [val |-> m.ppu.PPUSTATUS,
         m   |-> [m EXCEPT !.ppu.PPUSTATUS = ClrBit(@, 7),
                           !.ppu.addrLatch = FALSE,
                           !.ppu.nmi_occurred = FALSE]]
    ELSE IF r = 4 THEN [val |-> m.oam[m.ppu.OAMADDR + 1], m |-> m]
    ELSE IF r = 7 THEN PpuDataRead(m)
    ELSE [val |-> 0, m |-> m]

\* PPU::cpuWriteRegister
cpuWriteRegister(m, addr, val) ==
    LET r == addr % 8 IN
    IF r = 0 THEN
        [m EXCEPT !.ppu.PPUCTRL = val,
                  !.ppu.t = WithField(@, 10, 2, val % 4)]
    ELSE IF r = 1 THEN [m EXCEPT !.ppu.PPUMASK = val]
    ELSE IF r = 3 THEN [m EXCEPT !.ppu.OAMADDR = val]
    ELSE IF r = 4 THEN
        [m EXCEPT !.oam[m.ppu.OAMADDR + 1] = val,
                  !.ppu.OAMADDR = U8(@ + 1)]
    ELSE IF r = 5 THEN
        IF ~m.ppu.addrLatch THEN
            [m EXCEPT !.ppu.fineX = val % 8,
                      !.ppu.t = WithField(@ % 32768, 0, 5, val \div 8),
                      !.ppu.addrLatch = TRUE]
        ELSE
            [m EXCEPT !.ppu.t = WithField(WithField(Field(@, 0, 12), 12, 3, val % 8),
                                          5, 5, val \div 8),
                      !.ppu.addrLatch = FALSE]
    ELSE IF r = 6 THEN
        IF ~m.ppu.addrLatch THEN
            [m EXCEPT !.ppu.t = (@ % 256) + (val % 64) * 256,
                      !.ppu.addrLatch = TRUE]
        ELSE
            LET t2 == ((m.ppu.t \div 256) % 128) * 256 + val IN
            [m EXCEPT !.ppu.t = t2, !.ppu.v = t2, !.ppu.addrLatch = FALSE]
    ELSE IF r = 7 THEN
        [ppuWrite(m, m.ppu.v, val) EXCEPT
            !.ppu.v = (@ + incrementVRAMAddr(m.ppu)) % 32768]
    ELSE m

setVBlank(p) == [p EXCEPT !.PPUSTATUS = SetBit(@, 7), !.nmi_occurred = TRUE]
clearVBlank(p) == [p EXCEPT !.PPUSTATUS = ClrBit(@, 7), !.nmi_occurred = FALSE]

\* PPU::startScanline: the status flags are cleared on the pre-render line;
\* the line buffers and the secondary OAM are emptied on every line.
\* (secOAM holds the secCount slots in use; the other slots are $FF.)
startScanline(p) ==
    [(IF p.scanline = LastScanline
      THEN [clearVBlank(p) EXCEPT !.PPUSTATUS = ClrBit(ClrBit(@, 6), 5)]
      ELSE p)
     EXCEPT !.lineBGPix = <<>>, !.lineSPPix = <<>>, !.lineSP0Mask = {},
            !.secCount = 0, !.secOAM = <<>>]

\* PPU::evaluateSpritesWindow: the sprites of the line, in OAM order, the
\* first eight at most, and the sprite-overflow flag.
SpriteInRange(o, i, line, sprH) ==
    LET top == o[i * 4 + 1] + 1 IN line >= top /\ line < top + sprH

SpriteHeight(p) == IF TestBit(p.PPUCTRL, 5) THEN 16 ELSE 8

\* The sprites the loop copies: in range, with fewer than 8 found before.
Selected(o, line, sprH) ==
    {i \in 0..63 :
        /\ SpriteInRange(o, i, line, sprH)
        /\ Cardinality({j \in 0..(i - 1) : SpriteInRange(o, j, line, sprH)}) < 8}

\* The sprite copied to slot s (1 is the first slot).
SlotSprite(sel, s) == CHOOSE i \in sel : Cardinality({j \in sel : j < i}) = s - 1

SecEntry(o, i) == <<o[i * 4 + 1], o[i * 4 + 2], o[i * 4 + 3], o[i * 4 + 4]>>

EvalSelected(p, o, sel) ==
    [p EXCEPT !.secCount = Cardinality(sel),
              !.secOAM = [s \in 1..Cardinality(sel) |-> SecEntry(o, SlotSprite(sel, s))],
              !.PPUSTATUS = IF Cardinality(sel) >= 8 THEN SetBit(@, 5) ELSE @]

evaluateSpritesWindow(p, o) == EvalSelected(p, o, Selected(o, p.scanline, SpriteHeight(p)))

BitAt(b, k) == (b \div (2 ^ k)) % 2

\* The lambda fetchRow of PPU::renderSpritesForLine: the address of plane 0.
RowBase(p, tile, row, flipV) ==
    IF SpriteHeight(p) = 16 THEN
        LET r == IF flipV THEN 15 - row ELSE row
            table == IF tile % 2 = 1 THEN 4096 ELSE 0
            topTile == tile - (tile % 2)
        IN  IF r < 8 THEN table + topTile * 16 + r
            ELSE table + (topTile + 1) * 16 + (r - 8)
    ELSE
        (IF TestBit(p.PPUCTRL, 3) THEN 4096 ELSE 0) + tile * 16
            + (IF flipV THEN 7 - row ELSE row)

\* The raw pixel of column c of a sprite row with planes at base, base + 8.
SpritePixel(base, flipH, c) ==
    BitAt(ChrRom(base + 8), IF flipH THEN c ELSE 7 - c) * 2
        + BitAt(ChrRom(base), IF flipH THEN c ELSE 7 - c)

\* The pixels that the sprite of one slot offers: screen column -> raw pixel.
RowPixels(p, x, base, flipH) ==
    [sx \in {x + c : c \in {c \in 0..7 :
                    /\ x + c < 256
                    /\ ~(~TestBit(p.PPUMASK, 2) /\ x + c < 8)
                    /\ SpritePixel(base, flipH, c) # 0}}
        |-> SpritePixel(base, flipH, sx - x)]

SlotPixels(p, e) ==
    IF p.scanline - (e[1] + 1) < 0 \/ p.scanline - (e[1] + 1) >= SpriteHeight(p)
    THEN <<>>
    ELSE RowPixels(p, e[4],
                   RowBase(p, e[2], p.scanline - (e[1] + 1), TestBit(e[3], 7)),
                   TestBit(e[3], 6))

\* A pixel lands where no earlier slot has put one; the pixels of the
\* first slot (s == 0 in the source) are marked in the sprite-0 mask.
Overlay(line, px, first) ==
    [pix |-> [sx \in DOMAIN line.pix \cup DOMAIN px |->
                 IF sx \in DOMAIN line.pix THEN line.pix[sx] ELSE px[sx]],
     sp0 |-> IF first THEN line.sp0 \cup (DOMAIN px \ DOMAIN line.pix) ELSE line.sp0]

RECURSIVE RenderSlots(_, _, _)
RenderSlots(p, s, line) ==
    IF s > p.secCount THEN line
    ELSE RenderSlots(p, s + 1, Overlay(line, SlotPixels(p, p.secOAM[s]), s = 1))

EmptyLine == [pix |-> <<>>, sp0 |-> {}]

SetSpriteLine(p, line) == [p EXCEPT !.lineSPPix = line.pix, !.lineSP0Mask = line.sp0]

\* PPU::renderSpritesForLine (raw pixels and sprite-0 mask; the colours and
\* priorities go to the frame buffer only)
renderSpritesForLine(p) ==
    IF p.scanline < 0 \/ p.scanline >= HEIGHT THEN p
    ELSE SetSpriteLine(p, IF TestBit(p.PPUMASK, 4) THEN RenderSlots(p, 1, EmptyLine)
                          ELSE EmptyLine)

\* PPU::endScanline: the sprite-0 hit of the line.
Sprite0Hit(p) ==
    /\ TestBit(p.PPUMASK, 3) /\ TestBit(p.PPUMASK, 4)
    /\ \E x \in p.lineSP0Mask :
          /\ TestBit(p.PPUMASK, 1) \/ x >= 8
          /\ TestBit(p.PPUMASK, 2) \/ x >= 8
          /\ CellRead(p.lineBGPix, x) # 0
          /\ CellRead(p.lineSPPix, x) # 0

endScanline(p) ==
    IF p.scanline >= 0 /\ p.scanline < HEIGHT /\ Sprite0Hit(p)
    THEN [p EXCEPT !.PPUSTATUS = SetBit(@, 6)]
    ELSE p

\* The sprite part of PPU::tick: evaluation at dot 65 and rendering at dot
\* 257 of a visible line.
SpriteDot(p, o) ==
    IF p.scanline >= 0 /\ p.scanline < HEIGHT /\ p.dot = SpriteEvalDot
    THEN evaluateSpritesWindow([p EXCEPT !.PPUSTATUS = ClrBit(@, 5),
                                         !.secCount = 0, !.secOAM = <<>>], o)
    ELSE IF p.scanline >= 0 /\ p.scanline < HEIGHT /\ p.dot = SpriteRenderDot
    THEN renderSpritesForLine(p)
    ELSE p

\* After dot 340: endScanline has run; the next line, or the next frame.
WrapLine(p) ==
    startScanline(IF p.scanline + 1 > LastScanline
                  THEN [p EXCEPT !.scanline = 0, !.frame_odd = ~@]
                  ELSE [p EXCEPT !.scanline = @ + 1])

\* The end of PPU::tick: advance the dot, set vblank at (241,1), wrap the
\* line and the frame.
SetVBlankAt(p) == IF p.scanline = VBlankScanline /\ p.dot = 1 THEN setVBlank(p) ELSE p

WrapAfterLastDot(p) ==
    IF p.dot > LastDot THEN WrapLine(endScanline([p EXCEPT !.dot = 0])) ELSE p

AdvanceTime(p) == WrapAfterLastDot(SetVBlankAt([p EXCEPT !.dot = @ + 1]))

\* The odd-frame skip of PPU::tick: on the pre-render line of an odd frame
\* with rendering enabled, dot 339 goes straight to (0,0).
OddFrameSkip(p) ==
    p.scanline = LastScanline /\ renderingEnabled(p) /\ p.frame_odd /\ p.dot = OddSkipDot

SkipOrAdvance(p) ==
    IF OddFrameSkip(p)
    THEN startScanline([endScanline([p EXCEPT !.dot = 0]) EXCEPT !.scanline = 0])
    ELSE AdvanceTime(p)

\* The background fetch pipeline of PPU::tick (dots 1-256 and 321-340 with
\* rendering enabled, on every scanline): the nametable byte at dot % 8 = 1,
\* the pattern bytes at dot % 8 = 5 and 7, the coarse-X increment at
\* dot % 8 = 0.  Attribute and pattern bytes only feed the shifters.
fetchWindow(p) ==
    renderingEnabled(p) /\ ((p.dot >= 1 /\ p.dot <= 256) \/ (p.dot >= 321 /\ p.dot <= 340))

patBase(p) == IF TestBit(p.PPUCTRL, 4) THEN 4096 ELSE 0

\* uint16_t p0 = patBase + ntLatch * 16 + fineY (plane 0), + 8 (plane 1)
PatternAddr(p, plane) == patBase(p) + p.ntLatch * 16 + Field(p.v, 12, 3) + 8 * plane

\* What a12ThisDot is at the end of the pipeline: a pattern fetch of dots
\* 1-256 with address bit 12 set.
A12ThisDot(p) ==
    /\ fetchWindow(p) /\ p.dot <= 256
    /\ \/ p.dot % 8 = 5 /\ TestBit(PatternAddr(p, 0), 12)
       \/ p.dot % 8 = 7 /\ TestBit(PatternAddr(p, 1), 12)

IncrementCoarseX(v) ==
    IF v % 32 = 31 THEN
        LET w == v - 31 IN IF TestBit(w, 10) THEN w - 1024 ELSE w + 1024
    ELSE v + 1

BgFetch(p, mir) ==
    IF ~fetchWindow(p) THEN [p EXCEPT !.a12ThisDot = FALSE]
    ELSE IF p.dot % 8 = 1
    THEN [p EXCEPT !.a12ThisDot = FALSE,
                   !.ntLatch = ppuRead([ppu |-> p, map |-> [mir |-> mir]],
                                       8192 + (p.v % 4096))]
    ELSE IF p.dot % 8 = 0
    THEN [p EXCEPT !.a12ThisDot = FALSE, !.v = IncrementCoarseX(@)]
    ELSE [p EXCEPT !.a12ThisDot = A12ThisDot(p)]

\* The vertical increment of dot 256.
IncrementY(v) ==
    IF Field(v, 12, 3) # 7 THEN v + 4096
    ELSE LET w == WithField(v, 12, 3, 0)
             y == Field(w, 5, 5)
         IN  IF y = 29 THEN WithField(IF TestBit(w, 11) THEN w - 2048 ELSE w + 2048,
                                      5, 5, 0)
             ELSE IF y = 31 THEN WithField(w, 5, 5, 0)
             ELSE WithField(w, 5, 5, y + 1)

\* PPU::copyHorizontal, PPU::copyVertical: the bits $041F, the bits $7BE0.
HorizontalBits(x) == Field(x, 0, 5) + 1024 * Field(x, 10, 1)
VerticalBits(x) == (x % 32768) - HorizontalBits(x)

copyHorizontalAll(p) == [p EXCEPT !.v = p.t]

copyHorizontal(p) == [p EXCEPT !.v = VerticalBits(@) + HorizontalBits(p.t)]
copyVertical(p) == [p EXCEPT !.v = HorizontalBits(@) + VerticalBits(p.t)]

\* The scroll updates of PPU::tick after the sprites: the vertical
\* increment at dot 256 of a visible line, the horizontal copy at dot 257
\* of every line, the vertical copy at dots 280-304 of the pre-render line.
VerticalIncrement(p) ==
    IF p.scanline >= 0 /\ p.scanline < HEIGHT /\ renderingEnabled(p) /\ p.dot = 256
    THEN [p EXCEPT !.v = IncrementY(@)] ELSE p

HorizontalCopy(p) ==
    IF renderingEnabled(p) /\ p.dot = 257 THEN copyHorizontal(p) ELSE p

VerticalCopy(p) ==
    IF p.scanline = LastScanline /\ renderingEnabled(p) /\ p.dot >= 280 /\ p.dot <= 304
    THEN copyVertical(p) ELSE p

ScrollDot(p) == VerticalCopy(HorizontalCopy(VerticalIncrement(p)))

\* PPU::tick: the background fetches, the sprites, the scroll updates,
\* then the timing, vblank and status flags.  mir is the mirroring of the
\* cartridge.  The background shifters are not modelled: lineBGPix is what
\* the ticks of dots 1-256 have left of the line.
tick(p, o, mir) == SkipOrAdvance(ScrollDot(SpriteDot(BgFetch(p, mir), o)))

\* The calls tick makes on the mapper, in order: the dot-260 hook on a
\* visible line, then the A12 sample of the dot (false on the skipped dot
\* of an odd frame, where tick returns early).
HookCalls(p) ==
    (IF p.scanline >= 0 /\ p.scanline < HEIGHT /\ p.dot = 260
     THEN << [hook |-> "dot260", arg |-> renderingEnabled(p)] >> ELSE << >>)
    \o << [hook |-> "a12", arg |-> IF OddFrameSkip(p) THEN FALSE ELSE A12ThisDot(p)] >>

(***************************************************************************)
(* The memory behind the bus (bus.cpp, cartridge.cpp)                      *)
(***************************************************************************)
\* sysRAM is kept as the function of its non-zero cells.
RamRead(ram, a) == IF (a % 2048) \in DOMAIN ram THEN ram[a % 2048] ELSE 0
RamWrite(ram, a, v) ==
    LET k == a % 2048
        d == IF v = 0 THEN DOMAIN ram \ {k} ELSE DOMAIN ram \cup {k}
    IN  [x \in d |-> IF x = k THEN v ELSE ram[x]]

\* Cartridge::cpuRead
cartRead(a) == IF a \in DOMAIN prg THEN prg[a] ELSE 255

(***************************************************************************)
(* APU (apu.cpp): frame sequencer, IRQ flags, channels.  fcCycle2 is the   *)
(* double fcCycle counted in half CPU cycles, so that 3729.5 is 7459.      *)
(***************************************************************************)
irqLine(a) == a.frameIRQ \/ a.dmcIRQ

\* The console specifications run cartridges that never write $4000-$4015
\* and carry the APU without its channels; the APU specifications carry the
\* channels, and count the calls of quarterFrame, halfFrame and the memory
\* fetches of the DMC.
HasChannels(a) == "dmc" \in DOMAIN a

\* APU::lengthTable, noisePeriod, dmcRate
lengthTable ==
    <<10, 254, 20, 2, 40, 4, 80, 6, 160, 8, 60, 10, 14, 12, 26, 14,
      12, 16, 24, 18, 48, 20, 96, 22, 192, 24, 72, 26, 16, 28, 32, 30>>

noisePeriod ==
    <<4, 8, 16, 32, 64, 96, 128, 160, 202, 254, 380, 508, 762, 1016, 2034, 4068>>

dmcRate ==
    <<428, 380, 340, 320, 286, 254, 226, 214, 190, 160, 142, 128, 106, 85, 72, 54>>

\* The envelope of APU::Pulse::quarterFrame and APU::Noise::quarterFrame,
\* reg being the envelope register of the channel.
EnvelopeClock(q, reg) ==
    IF q.envStart
    THEN [q EXCEPT !.envStart = FALSE, !.envVol = 15, !.envDivider = reg % 16]
    ELSE IF q.envDivider = 0
    THEN [q EXCEPT !.envDivider = reg % 16,
                   !.envVol = IF @ > 0 THEN @ - 1
                              ELSE IF TestBit(reg, 5) THEN 15 ELSE @]
    ELSE [q EXCEPT !.envDivider = @ - 1]

\* APU::Pulse
pulseWrite0(q, v) ==
    [q EXCEPT !.dutySel = (v \div 64) % 4, !.constantVol = TestBit(v, 4),
              !.vol = v % 16, !.envelope = v, !.envStart = TRUE]

pulseWrite1(q, v) ==
    [q EXCEPT !.sweep = v, !.sweepEnable = TestBit(v, 7),
              !.sweepDivider = (v \div 16) % 8, !.sweepNeg = TestBit(v, 3),
              !.sweepShift = v % 8, !.sweepReload = TRUE]

pulseWrite2(q, v) ==
    [q EXCEPT !.timerLo = v, !.period = (@ \div 256) * 256 + v]

pulseWrite3(q, v) ==
    [q EXCEPT !.timerHi = v % 8, !.period = (v % 8) * 256 + q.timerLo,
              !.lengthCtr = lengthTable[((v \div 8) % 32) + 1],
              !.envStart = TRUE, !.seqIndex = 0]

pulseQuarterFrame(q) == EnvelopeClock(q, q.envelope)

targetPeriod(q, isPulse1) ==
    IF q.sweepShift = 0 THEN q.period
    ELSE IF q.sweepNeg
    THEN q.period - (q.period \div (2 ^ q.sweepShift)) - (IF isPulse1 THEN 1 ELSE 0)
    ELSE q.period + (q.period \div (2 ^ q.sweepShift))

SweepPeriod(q, tp) ==
    IF q.sweepDivider = 0
    THEN [q EXCEPT !.period = IF tp >= 8 /\ tp <= 2047 THEN tp % 65536 ELSE @,
                   !.sweepDivider = (q.sweep \div 16) % 8]
    ELSE [q EXCEPT !.sweepDivider = @ - 1]

SweepReload(q) ==
    IF q.sweepReload
    THEN [q EXCEPT !.sweepDivider = (q.sweep \div 16) % 8, !.sweepReload = FALSE]
    ELSE q

PulseSweep(q, isPulse1) ==
    IF q.sweepEnable /\ q.sweepShift # 0
    THEN SweepReload(SweepPeriod(q, targetPeriod(q, isPulse1)))
    ELSE q

pulseHalfFrame(q, isPulse1) ==
    PulseSweep(IF ~TestBit(q.envelope, 5) /\ q.lengthCtr > 0
               THEN [q EXCEPT !.lengthCtr = @ - 1] ELSE q, isPulse1)

pulseClockTimer(q) ==
    IF q.timer = 0
    THEN [q EXCEPT !.timer = q.period, !.seqIndex = (@ + 1) % 8]
    ELSE [q EXCEPT !.timer = @ - 1]

\* APU::Triangle
triWrite0(t, v) == [t EXCEPT !.control = TestBit(v, 7), !.linReg = v % 128]

triWrite2(t, v) == [t EXCEPT !.period = (@ \div 256) * 256 + v]

triWrite3(t, v) ==
    [t EXCEPT !.period = (v % 8) * 256 + (@ % 256),
              !.lengthCtr = lengthTable[((v \div 8) % 32) + 1],
              !.linReload = TRUE]

triQuarterFrame(t) ==
    [t EXCEPT !.linCtr = IF t.linReload THEN t.linReg ELSE IF @ > 0 THEN @ - 1 ELSE @,
              !.linReload = IF ~t.control THEN FALSE ELSE @]

triHalfFrame(t) ==
    IF ~t.control /\ t.lengthCtr > 0 THEN [t EXCEPT !.lengthCtr = @ - 1] ELSE t

triClockTimer(t) ==
    IF t.lengthCtr = 0 \/ t.linCtr = 0 THEN t
    ELSE IF t.timer = 0
    THEN [t EXCEPT !.timer = t.period, !.step = (@ + 1) % 32]
    ELSE [t EXCEPT !.timer = @ - 1]

\* APU::Noise
noiseWriteC(n, v) ==
    [n EXCEPT !.envReg = v, !.constantVol = TestBit(v, 4), !.vol = v % 16,
              !.envStart = TRUE]

noiseWriteE(n, v) == [n EXCEPT !.modeReg = v, !.period = noisePeriod[(v % 16) + 1]]

noiseWriteF(n, v) ==
    [n EXCEPT !.lengthCtr = lengthTable[((v \div 8) % 32) + 1], !.envStart = TRUE]

noiseQuarterFrame(n) == EnvelopeClock(n, n.envReg)

noiseHalfFrame(n) ==
    IF ~TestBit(n.envReg, 5) /\ n.lengthCtr > 0 THEN [n EXCEPT !.lengthCtr = @ - 1] ELSE n

noiseClockTimer(n) ==
    IF n.timer = 0
    THEN [n EXCEPT !.timer = n.period,
                   !.lfsr = (@ \div 2)
                       + 16384 * ((BitAt(@, 0)
                                   + BitAt(@, IF TestBit(n.modeReg, 7) THEN 6 ELSE 1)) % 2)]
    ELSE [n EXCEPT !.timer = @ - 1]

\* APU::DMC
dmcWrite0(d, v) == [d EXCEPT !.reg0 = v, !.rate = dmcRate[(v % 16) + 1]]

dmcWrite1(d, v) == [d EXCEPT !.reg1 = v]

dmcWrite2(d, v) == [d EXCEPT !.reg2 = v, !.addr = (49152 + 64 * v) % 65536]

dmcWrite3(d, v) == [d EXCEPT !.reg3 = v, !.length = (1 + 16 * v) % 65536]

restartSample(d) == [d EXCEPT !.curAddr = d.addr, !.bytesLeft = d.length]

\* An output unit that adds and subtracts without looking at the level.
dmcShiftOutUnclamped(d) ==
    [d EXCEPT !.timer = d.rate,
              !.output = IF d.silence THEN @
                         ELSE IF d.shift % 2 = 1 THEN @ + 2 ELSE @ - 2,
              !.shift = @ \div 2,
              !.bits = (@ + 255) % 256]

\* The output unit of APU::DMC::clockTimer: one bit of the shift register.
dmcShiftOut(d) ==
    [d EXCEPT !.timer = d.rate,
              !.output = IF d.silence THEN @
                         ELSE IF d.shift % 2 = 1 /\ @ <= 125 THEN @ + 2
                         ELSE IF d.shift % 2 = 0 /\ @ >= 2 THEN @ - 2
                         ELSE @,
              !.shift = @ \div 2,
              !.bits = (@ + 255) % 256]

\* The byte of the cartridge or of the RAM that Bus::cpuRead returns to the
\* DMC (the sample addresses are $C000-$FFFF and, past $FFFF, $0000-$0FB0).
dmcBusRead(addr) == IF addr < 8192 THEN RamRead(sysRAM, addr) ELSE cartRead(addr)

\* The memory reader of APU::DMC::clockTimer.
dmcFetch(a) ==
    IF a.dmc.bytesLeft > 0
    THEN [a EXCEPT !.dmc.shift = dmcBusRead(a.dmc.curAddr),
                   !.dmc.curAddr = (@ + 1) % 65536,
                   !.dmc.bytesLeft = @ - 1,
                   !.dmc.silence = FALSE,
                   !.fetches = @ + 1]
    ELSE a

\* An end of an output cycle that silences the channel without the IRQ.
dmcCycleEndNoIrq(a) ==
    IF a.dmc.bits # 0 THEN a
    ELSE dmcFetch(IF a.dmc.bytesLeft # 0 THEN [a EXCEPT !.dmc.bits = 8]
                  ELSE IF TestBit(a.dmc.reg0, 6)
                  THEN [a EXCEPT !.dmc = restartSample([@ EXCEPT !.bits = 8])]
                  ELSE [a EXCEPT !.dmc.bits = 8, !.dmc.silence = TRUE])

\* The end of an output cycle: restart, or silence and the IRQ.
dmcCycleEnd(a) ==
    IF a.dmc.bits # 0 THEN a
    ELSE dmcFetch(IF a.dmc.bytesLeft # 0 THEN [a EXCEPT !.dmc.bits = 8]
                  ELSE IF TestBit(a.dmc.reg0, 6)
                  THEN [a EXCEPT !.dmc = restartSample([@ EXCEPT !.bits = 8])]
                  ELSE [a EXCEPT !.dmc.bits = 8, !.dmc.silence = TRUE,
                                 !.dmcIRQ = IF TestBit(a.dmc.reg0, 7) THEN TRUE ELSE @])

dmcClockTimer(a) ==
    IF a.dmc.timer > 0 THEN [a EXCEPT !.dmc.timer = @ - 1]
    ELSE dmcCycleEnd([a EXCEPT !.dmc = dmcShiftOut(@)])

\* APU::quarterFrame, APU::halfFrame
quarterFrame(a) ==
    IF HasChannels(a)
    THEN [a EXCEPT !.pulse1 = pulseQuarterFrame(@), !.pulse2 = pulseQuarterFrame(@),
                   !.tri = triQuarterFrame(@), !.noise = noiseQuarterFrame(@),
                   !.quarters = @ + 1]
    ELSE a

halfFrame(a) ==
    IF HasChannels(a)
    THEN [a EXCEPT !.pulse1 = pulseHalfFrame(@, TRUE), !.pulse2 = pulseHalfFrame(@, FALSE),
                   !.tri = triHalfFrame(@), !.noise = noiseHalfFrame(@),
                   !.halves = @ + 1]
    ELSE a

\* APU::resetFrameSequencer
resetFrameSequencerNoClock(a, fiveStep, inhibitIRQ, immediateClock) ==
    [a EXCEPT !.mode5 = fiveStep, !.irqInhibit = inhibitIRQ, !.frameIRQ = FALSE,
              !.fcCycle2 = 0, !.fcStep = 0]

ImmediateClock(a, immediateClock) ==
    IF a.mode5 /\ immediateClock THEN halfFrame(quarterFrame(a)) ELSE a

resetFrameSequencer(a, fiveStep, inhibitIRQ, immediateClock) ==
    ImmediateClock([a EXCEPT !.mode5 = fiveStep, !.irqInhibit = inhibitIRQ,
                             !.frameIRQ = FALSE, !.fcCycle2 = 0, !.fcStep = 0],
                   immediateClock)

\* A cadence that takes the first step a whole cycle early.
SeqStep1Early(a) ==
    IF a.fcCycle2 >= 2 * 3729 /\ a.fcStep = 0
    THEN [quarterFrame(a) EXCEPT !.fcStep = 1] ELSE a

\* The steps that both cadences of APU::tickCPU share.
SeqStep1(a) ==
    IF a.fcCycle2 >= 2 * 3729 + 1 /\ a.fcStep = 0
    THEN [quarterFrame(a) EXCEPT !.fcStep = 1] ELSE a

SeqStep2(a) ==
    IF a.fcCycle2 >= 2 * 7457 + 1 /\ a.fcStep <= 1
    THEN [halfFrame(quarterFrame(a)) EXCEPT !.fcStep = 2] ELSE a

SeqStep3(a) ==
    IF a.fcCycle2 >= 2 * 11186 + 1 /\ a.fcStep <= 2
    THEN [quarterFrame(a) EXCEPT !.fcStep = 3] ELSE a

FourStepEnd(a) ==
    IF a.fcCycle2 >= 2 * 14915 /\ a.fcStep <= 3
    THEN [halfFrame(quarterFrame(a))
          EXCEPT !.frameIRQ = IF ~a.irqInhibit THEN TRUE ELSE @,
                 !.fcCycle2 = @ - 2 * 14915, !.fcStep = 0]
    ELSE a

\* The 4-step cadence of APU::tickCPU.
FourStep(a) == FourStepEnd(SeqStep3(SeqStep2(SeqStep1([a EXCEPT !.fcCycle2 = @ + 2]))))

SeqStep4(a) ==
    IF a.fcCycle2 >= 2 * 14915 + 1 /\ a.fcStep <= 3
    THEN [halfFrame(quarterFrame(a)) EXCEPT !.fcStep = 4] ELSE a

FiveStepEnd(a) ==
    IF a.fcCycle2 >= 2 * 18641 /\ a.fcStep <= 4
    THEN [a EXCEPT !.fcCycle2 = @ - 2 * 18641, !.fcStep = 0]
    ELSE a

\* The 5-step cadence of APU::tickCPU.
FiveStep(a) ==
    FiveStepEnd(SeqStep4(SeqStep3(SeqStep2(SeqStep1([a EXCEPT !.fcCycle2 = @ + 2])))))

\* The channel timers of APU::tickCPU.
clockTimers(a) ==
    IF HasChannels(a)
    THEN dmcClockTimer([a EXCEPT !.pulse1 = pulseClockTimer(@),
                                 !.pulse2 = pulseClockTimer(@),
                                 !.tri = triClockTimer(@),
                                 !.noise = noiseClockTimer(@)])
    ELSE a

FrameSequencer(a) == IF ~a.mode5 THEN FourStep(a) ELSE FiveStep(a)

\* APU::tickCPU: the channel timers, then the frame sequencer (the audio
\* samples it mixes are not modelled).
tickCPU(a) == FrameSequencer(clockTimers(a))

\* APU::cpuRead
StatusBits(a) ==
    IF HasChannels(a)
    THEN (IF a.pulse1.lengthCtr > 0 THEN 1 ELSE 0)
         + (IF a.pulse2.lengthCtr > 0 THEN 2 ELSE 0)
         + (IF a.tri.lengthCtr > 0 THEN 4 ELSE 0)
         + (IF a.noise.lengthCtr > 0 THEN 8 ELSE 0)
         + (IF a.dmc.enabled /\ a.dmc.bytesLeft > 0 THEN 16 ELSE 0)
    ELSE 0

\* case 0x4015 of APU::cpuWrite
EnableChannel(c, on) ==
    [c EXCEPT !.enabled = on, !.lengthCtr = IF on THEN @ ELSE 0]

EnableDmc(a, on) ==
    IF on
    THEN [a EXCEPT !.dmc = IF @.bytesLeft = 0
                           THEN restartSample([@ EXCEPT !.enabled = TRUE])
                           ELSE [@ EXCEPT !.enabled = TRUE]]
    ELSE [a EXCEPT !.dmc.enabled = FALSE, !.dmc.bytesLeft = 0, !.dmcIRQ = FALSE]

apuWrite4015(a, v) ==
    EnableDmc([a EXCEPT !.pulse1 = EnableChannel(@, TestBit(v, 0)),
                        !.pulse2 = EnableChannel(@, TestBit(v, 1)),
                        !.tri = EnableChannel(@, TestBit(v, 2)),
                        !.noise = EnableChannel(@, TestBit(v, 3))],
              TestBit(v, 4))

\* APU::cpuWrite, the channel registers $4000-$4015
channelWrite(a, r, v) ==
    CASE r = 16384 -> [a EXCEPT !.pulse1 = pulseWrite0(@, v)]
      [] r = 16385 -> [a EXCEPT !.pulse1 = pulseWrite1(@, v)]
      [] r = 16386 -> [a EXCEPT !.pulse1 = pulseWrite2(@, v)]
      [] r = 16387 -> [a EXCEPT !.pulse1 = pulseWrite3(@, v)]
      [] r = 16388 -> [a EXCEPT !.pulse2 = pulseWrite0(@, v)]
      [] r = 16389 -> [a EXCEPT !.pulse2 = pulseWrite1(@, v)]
      [] r = 16390 -> [a EXCEPT !.pulse2 = pulseWrite2(@, v)]
      [] r = 16391 -> [a EXCEPT !.pulse2 = pulseWrite3(@, v)]
      [] r = 16392 -> [a EXCEPT !.tri = triWrite0(@, v)]
      [] r = 16394 -> [a EXCEPT !.tri = triWrite2(@, v)]
      [] r = 16395 -> [a EXCEPT !.tri = triWrite3(@, v)]
      [] r = 16396 -> [a EXCEPT !.noise = noiseWriteC(@, v)]
      [] r = 16398 -> [a EXCEPT !.noise = noiseWriteE(@, v)]
      [] r = 16399 -> [a EXCEPT !.noise = noiseWriteF(@, v)]
      [] r = 16400 -> [a EXCEPT !.dmc = dmcWrite0(@, v),
                                !.dmcIRQ = IF ~TestBit(v, 7) THEN FALSE ELSE @]
      [] r = 16401 -> [a EXCEPT !.dmc = dmcWrite1(@, v)]
      [] r = 16402 -> [a EXCEPT !.dmc = dmcWrite2(@, v)]
      [] r = 16403 -> [a EXCEPT !.dmc = dmcWrite3(@, v)]
      [] r = 16405 -> apuWrite4015(a, v)
      [] OTHER -> a

\* APU::cpuWrite
apuCpuWrite(a, r, v) ==
    IF r = 16407
    THEN resetFrameSequencer(a, TestBit(v, 7), TestBit(v, 6), TestBit(v, 7))
    ELSE IF HasChannels(a) THEN channelWrite(a, r, v)
    ELSE a

\* APU::cpuRead of $4015, APU::cpuWrite on the machine
apuRead(m) ==
    [val |-> StatusBits(m.apu) + (IF m.apu.frameIRQ THEN 64 ELSE 0)
                + (IF m.apu.dmcIRQ THEN 128 ELSE 0),
     m   |-> [m EXCEPT !.apu.frameIRQ = FALSE, !.apu.dmcIRQ = FALSE]]

apuWrite(m, a, v) == [m EXCEPT !.apu = apuCpuWrite(@, a, v)]


(***************************************************************************)
(* Mapper (mapper.h, mapper_mmc3.cpp): the IRQ registers of MMC3.  NROM    *)
(* has no registers and never raises an IRQ.                               *)
(***************************************************************************)
irqPending(mp) == mp.kind = "MMC3" /\ mp.irqFlag

irqAckIgnored(mp) == mp

irqAck(mp) == IF mp.kind = "MMC3" THEN [mp EXCEPT !.irqFlag = FALSE] ELSE mp

\* A clock of the counter that raises the IRQ one count early.
ClockIrqCounterEarly(mp) ==
    LET n == IF mp.irqReload \/ mp.irqCounter = 0 THEN mp.irqLatch
             ELSE mp.irqCounter - 1
    IN  [mp EXCEPT !.irqCounter = n, !.irqReload = FALSE,
                   !.irqFlag = IF n <= 1 /\ mp.irqEnable THEN TRUE ELSE @]

\* One clock of the MMC3 scanline counter (MapperMMC3::ppuA12Clock on a
\* filtered rising edge, MapperMMC3::ppuOnScanlineDot260 otherwise).
ClockIrqCounter(mp) ==
    LET n == IF mp.irqReload \/ mp.irqCounter = 0 THEN mp.irqLatch
             ELSE mp.irqCounter - 1
    IN  [mp EXCEPT !.irqCounter = n, !.irqReload = FALSE,
                   !.irqFlag = IF n = 0 /\ mp.irqEnable THEN TRUE ELSE @]

\* MapperMMC3::ppuA12Clock without the low-time filter.
ppuA12ClockUnfiltered(mp, level) ==
    IF ~level THEN
        [mp EXCEPT !.a12LowCycles = IF @ < A12LowCap THEN @ + 1 ELSE @,
                   !.prevA12 = FALSE]
    ELSE
        LET mp1 == IF ~mp.prevA12
                   THEN [ClockIrqCounter(mp) EXCEPT !.sawRiseThisLine = TRUE]
                   ELSE mp
        IN  [mp1 EXCEPT !.a12LowCycles = 0, !.prevA12 = TRUE]

\* MapperMMC3::ppuA12Clock: one sample of PPU address line A12 per dot.
ppuA12Clock(mp, level) ==
    IF ~level THEN
        [mp EXCEPT !.a12LowCycles = IF @ < A12LowCap THEN @ + 1 ELSE @,
                   !.prevA12 = FALSE]
    ELSE
        LET mp1 == IF ~mp.prevA12 /\ mp.a12LowCycles >= A12Filter
                   THEN [ClockIrqCounter(mp) EXCEPT !.sawRiseThisLine = TRUE]
                   ELSE mp
        IN  [mp1 EXCEPT !.a12LowCycles = 0, !.prevA12 = TRUE]

\* The hook synthesizing its clock on every line.
ppuOnScanlineDot260Always(mp, rendering) ==
    IF ~rendering THEN [mp EXCEPT !.sawRiseThisLine = FALSE]
    ELSE [ClockIrqCounter(mp) EXCEPT !.sawRiseThisLine = FALSE]

\* MapperMMC3::ppuOnScanlineDot260
ppuOnScanlineDot260(mp, rendering) ==
    IF ~rendering THEN [mp EXCEPT !.sawRiseThisLine = FALSE]
    ELSE
        LET mp1 == IF ~mp.sawRiseThisLine THEN ClockIrqCounter(mp) ELSE mp
        IN  [mp1 EXCEPT !.sawRiseThisLine = FALSE]

\* The mapper after the hook calls of one PPU::tick made at p.  The hooks
\* of the other mappers are the empty defaults of mapper.h.
ApplyHook(mp, c) ==
    IF c.hook = "dot260" THEN ppuOnScanlineDot260(mp, c.arg) ELSE ppuA12Clock(mp, c.arg)

RECURSIVE ApplyHooks(_, _)
ApplyHooks(mp, cs) ==
    IF cs = << >> THEN mp ELSE ApplyHooks(ApplyHook(mp, Head(cs)), Tail(cs))

tickMapper(p, mp) == IF mp.kind = "MMC3" THEN ApplyHooks(mp, HookCalls(p)) ELSE mp

\* MapperMMC3::cpuWrite where a write to $E000 only disables.
mapperWriteNoAck(mp, a, v) ==
    LET reg == (a \div 8192) * 8192 + (a % 2) IN
    IF mp.kind # "MMC3" \/ a < 32768 THEN mp
    ELSE IF reg = 32768 THEN
        [mp EXCEPT !.bankSelect = v % 8, !.prgMode = TestBit(v, 6),
                   !.chrMode = TestBit(v, 7)]
    ELSE IF reg = 32769 THEN
        [mp EXCEPT !.bank[mp.bankSelect] = IF mp.bankSelect <= 1 THEN ClrBit(v, 0) ELSE v]
    ELSE IF reg = 40960 THEN [mp EXCEPT !.mir = IF TestBit(v, 0) THEN 0 ELSE 1]
    ELSE IF reg = 40961 THEN [mp EXCEPT !.prgRAMEnable = v]
    ELSE IF reg = 49152 THEN [mp EXCEPT !.irqLatch = v]
    ELSE IF reg = 49153 THEN [mp EXCEPT !.irqReload = TRUE]
    ELSE IF reg = 57344 THEN [mp EXCEPT !.irqEnable = FALSE]
    ELSE IF reg = 57345 THEN [mp EXCEPT !.irqEnable = TRUE]
    ELSE mp

\* MapperMMC3::cpuWrite, registers $8000-$FFFF (a & $E001).
mapperWrite(mp, a, v) ==
    LET reg == (a \div 8192) * 8192 + (a % 2) IN
    IF mp.kind # "MMC3" \/ a < 32768 THEN mp
    ELSE IF reg = 32768 THEN
        [mp EXCEPT !.bankSelect = v % 8, !.prgMode = TestBit(v, 6),
                   !.chrMode = TestBit(v, 7)]
    ELSE IF reg = 32769 THEN
        [mp EXCEPT !.bank[mp.bankSelect] = IF mp.bankSelect <= 1 THEN ClrBit(v, 0) ELSE v]
    ELSE IF reg = 40960 THEN [mp EXCEPT !.mir = IF TestBit(v, 0) THEN 0 ELSE 1]
    ELSE IF reg = 40961 THEN [mp EXCEPT !.prgRAMEnable = v]
    ELSE IF reg = 49152 THEN [mp EXCEPT !.irqLatch = v]
    ELSE IF reg = 49153 THEN [mp EXCEPT !.irqReload = TRUE]
    ELSE IF reg = 57344 THEN [mp EXCEPT !.irqEnable = FALSE, !.irqFlag = FALSE]
    ELSE IF reg = 57345 THEN [mp EXCEPT !.irqEnable = TRUE]
    ELSE mp

(***************************************************************************)
(* MMC1 (mapper_mmc1.cpp): the serial load register and the four internal  *)
(* registers it commits to.                                                *)
(***************************************************************************)
NewMMC1 ==
    [kind |-> "MMC1", ctrl |-> 12, chrBank0 |-> 0, chrBank1 |-> 0, prgBank |-> 0,
     loadReg |-> 0, loadCount |-> 0, prgRamWriteEnabled |-> TRUE]

\* A shifter that takes the first bit written as the most significant one.
LoadShiftMsbFirst(loadReg, v) == (loadReg * 2 + (v % 2)) % 32

\* loadReg = (loadReg >> 1) | ((v & 1) << 4)
LoadShift(loadReg, v) == (loadReg \div 2) + (v % 2) * 16

\* The commit of the five bits to the register the address selects.
mmc1Commit(mp, a, data) ==
    LET reg == ((a - 32768) \div 8192) % 4
        mp1 == CASE reg = 0 -> [mp EXCEPT !.ctrl = data]
                 [] reg = 1 -> [mp EXCEPT !.chrBank0 = data]
                 [] reg = 2 -> [mp EXCEPT !.chrBank1 = data]
                 [] OTHER -> [mp EXCEPT !.prgBank = data % 16,
                                        !.prgRamWriteEnabled = ~TestBit(data, 4)]
    IN  [mp1 EXCEPT !.loadReg = 0, !.loadCount = 0]

\* MapperMMC1::cpuWrite where a write with bit 7 set keeps the buffered bits.
mmc1WriteKeepsBits(mp, a, v) ==
    IF a < 32768 THEN mp
    ELSE IF TestBit(v, 7) THEN
        [mp EXCEPT !.ctrl = SetBit(SetBit(@, 2), 3)]
    ELSE
        LET mp1 == [mp EXCEPT !.loadReg = LoadShift(@, v), !.loadCount = @ + 1]
        IN  IF mp1.loadCount < 5 THEN mp1
            ELSE mmc1Commit(mp1, a, mp1.loadReg % 32)

\* MapperMMC1::cpuWrite ($6000-$7FFF, the PRG RAM, is not a register).
mmc1Write(mp, a, v) ==
    IF a < 32768 THEN mp
    ELSE IF TestBit(v, 7) THEN
        [mp EXCEPT !.loadReg = 0, !.loadCount = 0,
                   !.ctrl = SetBit(SetBit(@, 2), 3)]
    ELSE
        LET mp1 == [mp EXCEPT !.loadReg = LoadShift(@, v), !.loadCount = @ + 1]
        IN  IF mp1.loadCount < 5 THEN mp1
            ELSE mmc1Commit(mp1, a, mp1.loadReg % 32)

(***************************************************************************)
(* Bus (bus.cpp)                                                           *)
(***************************************************************************)
\* Bus::cpuRead
cpuRead(m, a) ==
    IF a < 8192 THEN [val |-> RamRead(m.ram, a), m |-> m]
    ELSE IF a < 16384 THEN cpuReadRegister(m, 8192 + (a % 8))
    ELSE IF a = 16405 THEN apuRead(m)
    ELSE IF a = 16407 THEN [val |-> 64, m |-> m]
    ELSE IF a >= 16384 /\ a <= 16407 THEN [val |-> 0, m |-> m]
    ELSE IF a >= 16416 THEN [val |-> cartRead(a), m |-> m]
    ELSE [val |-> 0, m |-> m]

\* PPU::oamDMA with the fetch of Bus::cpuWrite, for a page of internal RAM
\* or of the cartridge: these reads change nothing, so byte i of the page
\* lands in oam[(start + i) mod 256] whatever the order of the 256 fetches.
DmaSourcePage(v) == v < 32 \/ v >= 128

oamDMA(m, base, start) ==
    [m EXCEPT !.oam = [j \in 1..256 |-> cpuRead(m, base + U8(j - 1 - start)).val]]

\* The stall an OAM DMA adds: 513 cycles, one more when the CPU is on an odd
\* cycle (bool cpu_on_odd = cpu->cycles & 1).
DmaStallCyclesEven(cycles) == DmaStall

DmaStallCycles(cycles) == DmaStall + (IF cycles % 2 = 1 THEN 1 ELSE 0)

\* Bus::cpuWrite
cpuWrite(m, a, v) ==
    IF a < 8192 THEN [m EXCEPT !.ram = RamWrite(@, a, v)]
    ELSE IF a < 16384 THEN cpuWriteRegister(m, 8192 + (a % 8), v)
    ELSE IF a = 16404 THEN
        LET m1 == [m EXCEPT !.cpu.dma_stall_cycles = @ + DmaStallCycles(m.cpu.cycles)]
        IN  oamDMA(m1, v * 256, m1.ppu.OAMADDR)
    ELSE IF a = 16406 THEN m
    ELSE IF a >= 16384 /\ a <= 16407 THEN apuWrite(m, a, v)
    ELSE IF a >= 16416 THEN [m EXCEPT !.map = mapperWrite(@, a, v)]
    ELSE m

\* The addresses the instructions of the CPU specifications read and write:
\* internal RAM, PPU registers $2000-$2006 and their mirrors, $4014, $4015,
\* $4017, and the cartridge from $8000 (their programs use neither the sound
\* channels nor the controller port nor PRG-RAM).
IoModelled(a) ==
    \/ a < 8192
    \/ a >= 8192 /\ a < 16384 /\ a % 8 # 7
    \/ a \in {16404, 16405, 16407}
    \/ a >= 32768

(***************************************************************************)
(* CPU (cpu.cpp).  An instruction is the triple <<opcode, byte 2, byte 3>> *)
(* that the fetches at PC, PC+1 and PC+2 return (bytes an instruction does *)
(* not fetch are 0).                                                       *)
(***************************************************************************)
rd(m, a) == cpuRead(m, a)
wr(m, a, v) == cpuWrite(m, a, v)

\* CPU::push8
push8(m, v) ==
    LET m1 == wr(m, 256 + m.cpu.S, v) IN [m1 EXCEPT !.cpu.S = U8(@ - 1)]

\* CPU::pull8
pull8(m) ==
    LET m1 == [m EXCEPT !.cpu.S = U8(@ + 1)] IN rd(m1, 256 + m1.cpu.S)

\* CPU::reset
reset(m) ==
    LET lo == rd(m, ResetVector)
        hi == rd(lo.m, ResetVector + 1)
    IN  [hi.m EXCEPT !.cpu.PC = Word(lo.val, hi.val),
                     !.cpu.A = 0, !.cpu.X = 0, !.cpu.Y = 0,
                     !.cpu.S = 253, !.cpu.P = 36, !.cpu.cycles = 0,
                     !.cpu.pending_irq = FALSE, !.cpu.pending_nmi = FALSE,
                     !.cpu.dma_stall_cycles = 0]

\* CPU::nmi
nmiDropped(c) == c

nmi(c) == [c EXCEPT !.pending_nmi = TRUE]

\* The opcodes of CPU::exec that the model executes.
OpBRK == 0
OpPHP == 8
OpCLC == 24
OpPLP == 40
OpSEC == 56
OpRTI == 64
OpPHA == 72
OpJMP == 76
OpCLI == 88
OpSEI == 120
OpSTA == 141
OpLDAimm == 169
OpLDA == 173
OpNOP == 234
OpBNE == 208
OpBEQ == 240

Opcodes == {OpBRK, OpPHP, OpCLC, OpPLP, OpSEC, OpRTI, OpPHA, OpJMP, OpCLI, OpSEI,
            OpSTA, OpLDAimm, OpLDA, OpNOP, OpBNE, OpBEQ}

\* Bytes fetched by an instruction, the opcode included.
InsLen(op) ==
    IF op \in {OpJMP, OpSTA, OpLDA} THEN 3
    ELSE IF op \in {OpLDAimm, OpBNE, OpBEQ} THEN 2
    ELSE 1

\* The instructions after which the IRQ boundary is delayed.
DelayOps == {OpCLI, OpSEI, OpPLP, OpRTI}

AdvancePC(m, n) == [m EXCEPT !.cpu.PC = U16(@ + n)]

\* case 0x00: BRK
BRK(m) ==
    LET m1 == AdvancePC(m, 1)
        m2 == push8(m1, m1.cpu.PC \div 256)
        m3 == push8(m2, m1.cpu.PC % 256)
        m4 == push8(m3, SetBit(m3.cpu.P, FlagB))
        m5 == [m4 EXCEPT !.cpu = setf(@, FlagI, TRUE)]
        lo == rd(m5, IRQVector)
        hi == rd(lo.m, IRQVector + 1)
    IN  [m |-> [hi.m EXCEPT !.cpu.PC = Word(lo.val, hi.val)], c |-> 7]

\* case 0x40: RTI
RTI(m) ==
    LET pf == pull8(m)
        lo == pull8(pf.m)
        hi == pull8(lo.m)
    IN  [m |-> [hi.m EXCEPT !.cpu.P = SetBit(ClrBit(pf.val, FlagB), FlagU),
                            !.cpu.PC = Word(lo.val, hi.val),
                            !.cpu.irq_delay = 1],
         c |-> 6]

\* case 0x48: PHA
PHA(m) == [m |-> push8(m, m.cpu.A), c |-> 3]

\* case 0x08: PHP
PHP(m) == [m |-> push8(m, SetBit(m.cpu.P, FlagB)), c |-> 3]

\* case 0x28: PLP
PLP(m) ==
    LET r  == pull8(m)
        c1 == [r.m.cpu EXCEPT !.P = SetBit(ClrBit(r.val, FlagB), FlagU),
                              !.irq_delay = 1]
    IN  [m |-> [r.m EXCEPT !.cpu = setZN(c1, c1.A)], c |-> 4]

\* case 0x58: CLI
CLI(m) == [m |-> [m EXCEPT !.cpu = [setf(@, FlagI, FALSE) EXCEPT !.irq_delay = 1]],
           c |-> 2]

\* case 0x78: SEI
SEI(m) == [m |-> [m EXCEPT !.cpu = [setf(@, FlagI, TRUE) EXCEPT !.irq_delay = 1]],
           c |-> 2]

\* case 0xA9: LDA #imm
LDAimm(m, ins) ==
    LET m1 == AdvancePC(m, 1)
    IN  [m |-> [m1 EXCEPT !.cpu = setZN([@ EXCEPT !.A = ins[2]], ins[2])], c |-> 2]

\* case 0xAD: LDA abs
LDA(m, ins) ==
    LET r == rd(AdvancePC(m, 2), Word(ins[2], ins[3]))
    IN  [m |-> [r.m EXCEPT !.cpu = setZN([@ EXCEPT !.A = r.val], r.val)], c |-> 4]

\* case 0x8D: STA abs
STA(m, ins) ==
    LET m1 == AdvancePC(m, 2)
    IN  [m |-> wr(m1, Word(ins[2], ins[3]), m1.cpu.A), c |-> 4]

\* case 0x4C: JMP abs
JMP(m, ins) == [m |-> [m EXCEPT !.cpu.PC = Word(ins[2], ins[3])], c |-> 3]

\* The operand of a branch as int8_t.
Int8(b) == IF b >= 128 THEN b - 256 ELSE b

\* Whether the high bytes of two addresses differ (old & 0xFF00) != (PC & 0xFF00).
PageCrossed(old, new) == (old \div 256) # (new \div 256)

\* A branch that compares the target's page with the page of the opcode.
branchFromOpcode(m, ins, cond) ==
    LET m1 == AdvancePC(m, 1)
        new == U16(m1.cpu.PC + Int8(ins[2]) + 65536)
    IN  IF cond
        THEN [m |-> [m1 EXCEPT !.cpu.PC = new],
              c |-> 3 + (IF PageCrossed(U16(m1.cpu.PC + 65534), new) THEN 1 ELSE 0)]
        ELSE [m |-> m1, c |-> 2]

\* The lambda branch of CPU::exec: the offset is fetched, then a taken branch
\* moves PC from the address after the operand and pays for a page crossed.
branch(m, ins, cond) ==
    LET m1 == AdvancePC(m, 1)
        old == m1.cpu.PC
        new == U16(old + Int8(ins[2]) + 65536)
    IN  IF cond
        THEN [m |-> [m1 EXCEPT !.cpu.PC = new],
              c |-> 3 + (IF PageCrossed(old, new) THEN 1 ELSE 0)]
        ELSE [m |-> m1, c |-> 2]

\* CPU::exec, with PC already past the opcode.
exec(m, ins) ==
    LET op == ins[1] IN
    CASE op = OpBRK -> BRK(m)
      [] op = OpRTI -> RTI(m)
      [] op = OpPHA -> PHA(m)
      [] op = OpPHP -> PHP(m)
      [] op = OpPLP -> PLP(m)
      [] op = OpCLI -> CLI(m)
      [] op = OpSEI -> SEI(m)
      [] op = OpCLC -> [m |-> [m EXCEPT !.cpu = setf(@, FlagC, FALSE)], c |-> 2]
      [] op = OpSEC -> [m |-> [m EXCEPT !.cpu = setf(@, FlagC, TRUE)], c |-> 2]
      [] op = OpLDAimm -> LDAimm(m, ins)
      [] op = OpLDA -> LDA(m, ins)
      [] op = OpSTA -> STA(m, ins)
      [] op = OpJMP -> JMP(m, ins)
      [] op = OpBEQ -> branch(m, ins, getf(m.cpu, FlagZ))
      [] op = OpBNE -> branch(m, ins, ~getf(m.cpu, FlagZ))
      [] OTHER -> [m |-> m, c |-> 2]

\* The interrupt sequence of CPU::step: push PC and P (B clear), set I,
\* load PC from the vector.
InterruptEntryKeepsI(m, vector) ==
    LET ret == m.cpu.PC
        m1 == push8(m, ret \div 256)
        m2 == push8(m1, ret % 256)
        m3 == push8(m2, ClrBit(m2.cpu.P, FlagB))
        lo == rd(m3, vector)
        hi == rd(lo.m, vector + 1)
    IN  [hi.m EXCEPT !.cpu.PC = Word(lo.val, hi.val)]

InterruptEntry(m, vector) ==
    LET ret == m.cpu.PC
        m1 == push8(m, ret \div 256)
        m2 == push8(m1, ret % 256)
        m3 == push8(m2, ClrBit(m2.cpu.P, FlagB))
        m4 == [m3 EXCEPT !.cpu = setf(@, FlagI, TRUE)]
        lo == rd(m4, vector)
        hi == rd(lo.m, vector + 1)
    IN  [hi.m EXCEPT !.cpu.PC = Word(lo.val, hi.val)]

\* CPU::step, the re-sampling of the level IRQ lines at a boundary.
LatchIRQ(m, suppress_irq) ==
    IF ~suppress_irq /\ ~getf(m.cpu, FlagI) /\ (irqPending(m.map) \/ irqLine(m.apu))
    THEN [m EXCEPT !.cpu.pending_irq = TRUE]
    ELSE m

\* CPU::step while an OAM DMA stalls the CPU: one cycle, nothing fetched.
StallStepUncounted(m) ==
    [m |-> [m EXCEPT !.cpu.dma_stall_cycles = @ - 1],
     ret |-> 1, kind |-> "stall", op |-> -1, acks |-> 0]

StallStep(m) ==
    [m |-> [m EXCEPT !.cpu.dma_stall_cycles = @ - 1, !.cpu.cycles = @ + 1],
     ret |-> 1, kind |-> "stall", op |-> -1, acks |-> 0]

\* CPU::step.  Returns the machine, the cycles returned, what the call did
\* ("stall", "nmi", "irq" or "exec"), the opcode executed and the number of
\* calls of Bus::mapperIRQAck made.
step(m, ins) ==
    IF m.cpu.dma_stall_cycles # 0 THEN StallStep(m)
    ELSE
        LET suppress_irq == m.cpu.irq_delay # 0
            m1 == [m EXCEPT !.cpu.irq_delay = 0]
            m2 == LatchIRQ(m1, suppress_irq)
        IN  IF m2.cpu.pending_nmi THEN
                LET m3 == InterruptEntry([m2 EXCEPT !.cpu.pending_nmi = FALSE], NMIVector)
                IN  [m |-> [m3 EXCEPT !.cpu.cycles = @ + 7],
                     ret |-> 7, kind |-> "nmi", op |-> -1, acks |-> 0]
            ELSE IF m2.cpu.pending_irq /\ ~getf(m2.cpu, FlagI) THEN
                LET m3 == InterruptEntry([m2 EXCEPT !.cpu.pending_irq = FALSE], IRQVector)
                    m4 == [m3 EXCEPT !.map = irqAck(@)]
                IN  [m |-> [m4 EXCEPT !.cpu.cycles = @ + 7],
                     ret |-> 7, kind |-> "irq", op |-> -1, acks |-> 1]
            ELSE
                LET e == exec(AdvancePC(m2, 1), ins)
                IN  [m |-> [e.m EXCEPT !.cpu.cycles = @ + e.c],
                     ret |-> e.c, kind |-> "exec", op |-> ins[1], acks |-> 0]

\* Whether a call of step in machine m fetches an instruction.
Fetches(m) ==
    /\ m.cpu.dma_stall_cycles = 0
    /\ LET m2 == LatchIRQ(m, m.cpu.irq_delay # 0)
       IN  ~m2.cpu.pending_nmi /\ ~(m2.cpu.pending_irq /\ ~getf(m2.cpu, FlagI))

\* The byte a fetch at address a returns is ins[k]: RAM and the known
\* cartridge bytes are fixed, any other cartridge byte is an input.
FetchByteOK(m, a, b) ==
    IF a < 8192 THEN RamRead(m.ram, a) = b
    ELSE /\ a >= 32768
         /\ a \in DOMAIN prg => prg[a] = b

FetchOK(m, ins) ==
    /\ ins[1] \in Opcodes
    /\ \A k \in 1..3 :
          IF k <= InsLen(ins[1])
          THEN FetchByteOK(m, U16(m.cpu.PC + k - 1), ins[k])
          ELSE ins[k] = 0
    /\ ins[1] \in {OpSTA, OpLDA} => IoModelled(Word(ins[2], ins[3]))
    /\ (ins[1] = OpSTA /\ Word(ins[2], ins[3]) = 16404) => DmaSourcePage(m.cpu.A)

(***************************************************************************)
(* The machine after construction (the member initialisers of cpu.h,      *)
(* ppu.h, apu.h and mapper_mmc3.h) and NES::powerOn.                       *)
(***************************************************************************)
NewCPU ==
    [A |-> 0, X |-> 0, Y |-> 0, S |-> 253, PC |-> 49152, P |-> 36, cycles |-> 0,
     pending_nmi |-> FALSE, pending_irq |-> FALSE, irq_delay |-> 0,
     dma_stall_cycles |-> 0]

NewPPU ==
    [PPUCTRL |-> 0, PPUMASK |-> 0, PPUSTATUS |-> 0, OAMADDR |-> 0,
     v |-> 0, t |-> 0, fineX |-> 0, addrLatch |-> FALSE,
     scanline |-> 261, dot |-> 0, frame_odd |-> FALSE, nmi_occurred |-> FALSE,
     vramReadBuffer |-> 0, vram |-> <<>>, palette |-> <<>>,
     secCount |-> 0, secOAM |-> <<>>,
     lineBGPix |-> <<>>, lineSPPix |-> <<>>, lineSP0Mask |-> {},
     ntLatch |-> 0, a12ThisDot |-> FALSE]

NewAPU ==
    [mode5 |-> FALSE, irqInhibit |-> FALSE, frameIRQ |-> FALSE, dmcIRQ |-> FALSE,
     fcCycle2 |-> 0, fcStep |-> 0]

\* APU::Pulse, APU::Triangle, APU::Noise, APU::DMC member initialisers
NewPulse ==
    [enabled |-> FALSE, dutySel |-> 0, envelope |-> 0, sweep |-> 0, timerLo |-> 0,
     timerHi |-> 0, timer |-> 0, period |-> 0, seqIndex |-> 0, envStart |-> FALSE,
     envVol |-> 0, envDivider |-> 0, constantVol |-> FALSE, vol |-> 0,
     lengthCtr |-> 0, sweepNeg |-> FALSE, sweepShift |-> 0, sweepDivider |-> 0,
     sweepEnable |-> FALSE, sweepReload |-> FALSE]

NewTriangle ==
    [enabled |-> FALSE, linReg |-> 0, timer |-> 0, period |-> 0, step |-> 0,
     lengthCtr |-> 0, linCtr |-> 0, linReload |-> FALSE, control |-> FALSE]

NewNoise ==
    [enabled |-> FALSE, envReg |-> 0, modeReg |-> 0, lfsr |-> 1, period |-> 0,
     timer |-> 0, envStart |-> FALSE, envVol |-> 0, envDivider |-> 0,
     constantVol |-> FALSE, vol |-> 0, lengthCtr |-> 0]

NewDMC ==
    [enabled |-> FALSE, reg0 |-> 0, reg1 |-> 0, reg2 |-> 0, reg3 |-> 0, rate |-> 0,
     timer |-> 0, addr |-> 0, length |-> 0, curAddr |-> 0, bytesLeft |-> 0,
     shift |-> 0, bits |-> 8, silence |-> TRUE, output |-> 64]

\* The APU with its channels, no call of quarterFrame or halfFrame and no
\* DMC fetch made yet.
ChannelAPU ==
    [mode5 |-> FALSE, irqInhibit |-> FALSE, frameIRQ |-> FALSE, dmcIRQ |-> FALSE,
     fcCycle2 |-> 0, fcStep |-> 0,
     pulse1 |-> NewPulse, pulse2 |-> NewPulse, tri |-> NewTriangle,
     noise |-> NewNoise, dmc |-> NewDMC,
     quarters |-> 0, halves |-> 0, fetches |-> 0]

NewMapper(kind) ==
    [kind |-> kind, irqLatch |-> 0, irqCounter |-> 0, irqEnable |-> FALSE,
     irqReload |-> FALSE, irqFlag |-> FALSE,
     prevA12 |-> FALSE, a12LowCycles |-> 0, sawRiseThisLine |-> FALSE,
     bankSelect |-> 0, bank |-> [i \in 0..7 |-> 0], prgMode |-> FALSE,
     chrMode |-> FALSE, mir |-> 0, prgRAMEnable |-> 128]

\* NES::powerOn: new CPU, PPU and APU, OAM filled with $FF, then CPU::reset.
\* The internal RAM is a static array of bus.cpp and is not touched.
powerOn(ram, mp) ==
    reset([cpu |-> NewCPU, ram |-> ram, ppu |-> NewPPU,
           oam |-> [i \in 1..256 |-> 255], apu |-> NewAPU, map |-> mp])

NewNES ==
    [pc |-> "idle", cpuCycles |-> 0, i |-> 0, frameDone |-> FALSE,
     nmiLinePrev |-> FALSE, frames |-> 0]

\* What an observer of the MMC3 has seen: the A12 samples (the run of low
\* samples, whether the last one was high), and since the last CPU write
\* that left a reload pending with IRQs enabled, a latch n >= 1 and no IRQ
\* flagged: n, the counter at that write, the rising edges that followed 8
\* low samples, whether another rising edge or a dot-260 clock came between,
\* and what happened to the flag while IRQs were disabled (wpar is the
\* parity of the number of register writes).
NewMmcObs ==
    [lows |-> 0, high |-> FALSE, armed |-> FALSE, n |-> 0, c0 |-> 0, edges |-> 0,
     invalid |-> FALSE, hooked |-> FALSE, acked |-> FALSE, zeroOff |-> FALSE,
     wpar |-> 0]

\* What an observer of the MMC1 has seen: the number of CPU writes, the last
\* one (address, value), the low bits of the writes with bit 7 clear since
\* the last commit or reset (a commit being due at the fifth), whether a
\* write with bit 7 set has discarded such bits since the last commit, how far the writes since an
\* empty shifter have followed $01, $00, $00, $00, $00, $80 to $8000, and
\* how many fifth writes there have been.
NewMmc1Obs ==
    [writes |-> 0, a |-> 0, v |-> 0, bits |-> <<>>, discarded |-> FALSE,
     scen |-> 0, fifths |-> 0]

\* What an observer of the PPU has counted: its ticks, the ticks since it
\* last arrived at (0,0), the length of the last complete frame (0 if none),
\* and whether it has passed (241,1) in this frame with no read of $2002
\* since.
NewPpuObs == [ticks |-> 0, ft |-> 0, len |-> 0, vb |-> FALSE]

\* What an observer of the PPU registers has seen: the number of accesses,
\* and whether the last was a write, its register and the byte written or
\* returned.
NewRegObs == [n |-> 0, wr |-> FALSE, reg |-> 0, val |-> 0]

\* What an observer of a PPUDATA round trip has seen: the accesses still to
\* be made before it, the accesses of it made, its address and byte, the
\* buffer before the first read and the bytes the two reads returned.
NewDataObs ==
    [prel |-> <<>>, pc |-> 0, hi |-> 0, lo |-> 0, x |-> 0,
     stale |-> 0, r1 |-> 0, r2 |-> 0]

\* What an observer of the run has counted (not program state): ticks and
\* cpu.nmi() calls since power-on, the last step, and the bookkeeping of the
\* current vertical blank, runFrame call and OAM DMA.
\* What an observer of the APU has seen: ticks, ticks since the sequencer
\* was last reset, CPU accesses, and the last of these.
NewApuObs ==
    [ticks |-> 0, since |-> 0, ops |-> 0, op |-> "none", reg |-> 0, val |-> 0,
     script |-> <<>>]

NewObs ==
    [apuTicks |-> 0, ppuTicks |-> 0, nmiCalls |-> 0, steps |-> 0,
     kind |-> "none", op |-> -1, ret |-> 0, acks |-> 0, pre |-> NewCPU,
     op2 |-> -1, pre2 |-> NewCPU,
     vbNmiDue |-> FALSE, vbl |-> FALSE, vblNmis |-> 0, vblEnables |-> 0,
     wrapped |-> FALSE, callSteps |-> 0, resets |-> 0,
     dmaLen |-> 0, dmaRun |-> 0, dmaPre |-> NewCPU, dmaAt |-> NewCPU,
     mmc |-> NewMmcObs, m1 |-> NewMmc1Obs, pp |-> NewPpuObs,
     pr |-> NewRegObs, pd |-> NewDataObs, ap |-> NewApuObs]

\* The machine record of the current state, and the assignment of one.
M == [cpu |-> cpu, ram |-> sysRAM, ppu |-> ppu, oam |-> oam, apu |-> apu, map |-> mapper]

SetM(m) ==
    /\ cpu' = m.cpu
    /\ sysRAM' = m.ram
    /\ ppu' = m.ppu
    /\ oam' = m.oam
    /\ apu' = m.apu
    /\ mapper' = m.map

(***************************************************************************)
(* Cartridge images: a program at $8000, an interrupt handler (RTI) at     *)
(* $9000, and the vectors NMI -> $9000, RESET -> $8000, IRQ -> $9000.      *)
(***************************************************************************)
Image(code) ==
    [a \in (32768..(32767 + Len(code))) \cup {36864} \cup (65530..65535) |->
        IF a < 36864 THEN code[a - 32767]
        ELSE IF a = 36864 THEN OpRTI
        ELSE IF a \in {65530, 65534} THEN 0
        ELSE IF a \in {65531, 65535} THEN 144
        ELSE IF a = 65532 THEN 0
        ELSE 128]

\* LDA #$80; STA $2000; L: JMP L
ProgNmi == <<169, 128, 141, 0, 32, 76, 5, 128>>
\* L: LDA #$00; STA $2000; LDA #$80; STA $2000; JMP L
ProgToggle == <<169, 0, 141, 0, 32, 169, 128, 141, 0, 32, 76, 0, 128>>
\* LDA #$80; STA $2000; L: LDA $2002; JMP L
ProgPoll == <<169, 128, 141, 0, 32, 173, 2, 32, 76, 5, 128>>
\* JMP +3; LDA #$80; STA $2000; L: LDA #$02; STA $4014; JMP L
ProgDma == <<76, 3, 128, 169, 128, 141, 0, 32, 169, 2, 141, 20, 64, 76, 8, 128>>
\* LDA #$08; STA $2001; L: JMP L
ProgRender == <<169, 8, 141, 1, 32, 76, 5, 128>>

Programs == {ProgNmi, ProgToggle, ProgPoll, ProgDma, ProgRender}

\* The instructions a fetch can return.
Bytes2 == {0, 2, 8, 128}
Instructions ==
    {<<op, 0, 0>> : op \in {o \in Opcodes : InsLen(o) = 1}}
    \cup {<<OpLDAimm, b, 0>> : b \in Bytes2}
    \cup {<<op, a[1], a[2]>> : op \in {OpSTA, OpLDA},
                              a \in {<<0, 32>>, <<1, 32>>, <<2, 32>>, <<20, 64>>,
                                     <<21, 64>>, <<23, 64>>, <<0, 2>>, <<1, 224>>,
                                     <<0, 224>>}}
    \cup {<<OpJMP, a[1], a[2]>> : a \in {<<0, 128>>, <<3, 128>>, <<5, 128>>, <<8, 128>>}}

(***************************************************************************)
(* NES::runFrame (nes.cpp), one action per position of its loop.           *)
(***************************************************************************)
\* The host loop calls runFrame (main.cpp:234).
RunFrameCall ==
    /\ nes.pc = "idle"
    /\ nes.frames < MaxFrames
    /\ nes' = [nes EXCEPT !.pc = "step", !.frameDone = FALSE, !.frames = @ + 1]
    /\ obs' = [obs EXCEPT !.wrapped = FALSE, !.callSteps = 0]
    /\ UNCHANGED <<cpu, sysRAM, ppu, oam, apu, mapper, prg>>

\* A step that executed a write to $4014 (the only source of a stall).
StartsDma(m, r) ==
    r.kind = "exec" /\ m.cpu.dma_stall_cycles = 0 /\ r.m.cpu.dma_stall_cycles > 0

\* A step that wrote PPUCTRL so that NMI generation went from off to on.
EnablesNmi(m, r) == ~nmi_output(m.ppu) /\ nmi_output(r.m.ppu)

\* int cpuCycles = cpu->step();
ObserveStep(m, r) ==
    [obs EXCEPT !.steps = @ + 1, !.kind = r.kind, !.op = r.op, !.ret = r.ret,
                !.acks = @ + r.acks, !.pre = m.cpu,
                !.op2 = obs.op, !.pre2 = obs.pre,
                !.vbNmiDue = FALSE,
                !.vblEnables = IF obs.vbl /\ EnablesNmi(m, r) THEN @ + 1 ELSE @,
                !.callSteps = @ + 1,
                !.dmaLen = IF StartsDma(m, r) THEN r.m.cpu.dma_stall_cycles ELSE @,
                !.dmaRun = IF StartsDma(m, r) THEN 0
                           ELSE IF r.kind = "stall" THEN @ + 1 ELSE @,
                !.dmaPre = IF StartsDma(m, r) THEN m.cpu ELSE @,
                !.dmaAt = IF StartsDma(m, r) THEN r.m.cpu ELSE @]

\* The machine and the observer after a call of CPU::step that returned r.
Stepped(r) ==
    /\ SetM(r.m)
    /\ obs' = ObserveStep(M, r)

LoopStepped(r) ==
    /\ Stepped(r)
    /\ nes' = [nes EXCEPT !.pc = "apu", !.cpuCycles = r.ret, !.i = 0]

LoopStep ==
    /\ nes.pc = "step"
    /\ \E ins \in Instructions :
          /\ IF Fetches(M) THEN FetchOK(M, ins) ELSE ins = <<OpNOP, 0, 0>>
          /\ LoopStepped(step(M, ins))
    /\ UNCHANGED prg

\* for (i < cpuCycles) apu->tickCPU();
ApuTick ==
    /\ nes.pc = "apu"
    /\ apu' = tickCPU(apu)
    /\ nes' = IF nes.i + 1 < nes.cpuCycles
              THEN [nes EXCEPT !.i = @ + 1]
              ELSE [nes EXCEPT !.pc = "ppu", !.i = 0]
    /\ obs' = [obs EXCEPT !.apuTicks = @ + 1]
    /\ UNCHANGED <<cpu, sysRAM, ppu, oam, mapper, prg>>

\* if (nmiLevel && !nmiLinePrev) cpu->nmi();
NmiLevelTriggered(level, prev) == level

NmiEdge(level, prev) == level /\ ~prev

\* Where runFrame goes after a PPU tick: the inner for loop runs to its end
\* before `if (frameDone) break` is looked at.
LoopExitAtWrap(last, done) ==
    IF done THEN "idle" ELSE IF last THEN "step" ELSE "ppu"

LoopExit(last, done) ==
    IF ~last THEN "ppu" ELSE IF done THEN "idle" ELSE "step"

\* The rest of an iteration of the PPU loop once ppu->tick() has made p of
\* the PPU: the NMI edge and the frame boundary.
AfterTick(p, nmiLevel, wrap, vbStart, vbEnd) ==
    LET edge == NmiEdge(nmiLevel, nes.nmiLinePrev)
        done == nes.frameDone \/ wrap
        last == ~(nes.i + 1 < nes.cpuCycles * 3)
        exit == LoopExit(last, done)
    IN  /\ ppu' = p
        /\ cpu' = IF edge THEN nmi(cpu) ELSE cpu
        /\ nes' = [nes EXCEPT !.nmiLinePrev = nmiLevel,
                              !.frameDone = done,
                              !.i = IF exit = "ppu" THEN @ + 1 ELSE 0,
                              !.pc = exit]
        /\ obs' = [obs EXCEPT
               !.ppuTicks = @ + 1,
               !.nmiCalls = IF edge THEN @ + 1 ELSE @,
               !.vbNmiDue = @ \/ (vbStart /\ nmi_output(p)),
               !.vbl = IF vbStart THEN TRUE ELSE IF vbEnd THEN FALSE ELSE @,
               !.vblNmis = (IF vbStart THEN 0 ELSE @) + (IF edge THEN 1 ELSE 0),
               !.vblEnables = IF vbStart THEN 0 ELSE @,
               !.wrapped = @ \/ wrap]

Ticked(p) ==
    AfterTick(p, p.nmi_occurred /\ nmi_output(p),
              p.scanline = 0 /\ p.dot = 0,
              p.scanline = VBlankScanline /\ p.dot = 1,
              p.scanline = LastScanline /\ p.dot = 1)

\* for (i < cpuCycles * 3) { ppu->tick(); NMI edge; frame boundary }
PpuTick ==
    /\ nes.pc = "ppu"
    /\ Ticked(tick(ppu, oam, mapper.mir))
    /\ mapper' = tickMapper(ppu, mapper)
    /\ UNCHANGED <<sysRAM, oam, apu, prg>>

\* The host resets the console between frames (main.cpp:210): NES::powerOn.
PowerOn ==
    /\ nes.pc = "idle"
    /\ nes.frames > 0
    /\ obs.steps > 0
    /\ SetM(powerOn(sysRAM, NewMapper(mapper.kind)))
    /\ nes' = [nes EXCEPT !.cpuCycles = 0, !.i = 0]
    /\ obs' = [NewObs EXCEPT !.acks = obs.acks]
    /\ UNCHANGED prg

InitFrame ==
    /\ prg \in {Image(code) : code \in Programs}
    /\ LET m == powerOn(<<>>, NewMapper("NROM"))
       IN  /\ cpu = m.cpu
           /\ sysRAM = m.ram
           /\ ppu = m.ppu
           /\ oam = m.oam
           /\ apu = m.apu
           /\ mapper = m.map
    /\ nes = NewNES
    /\ obs = NewObs

NextFrame == RunFrameCall \/ LoopStep \/ ApuTick \/ PpuTick \/ PowerOn

SpecFrame == InitFrame /\ [][NextFrame]_vars

\* The states of runFrame late in a frame: for each program, the iteration
\* boundary on scanline 240 that its second runFrame call after power-on
\* passes through (each is a state of SpecFrame, 27502..27504 CPU cycles
\* after power-on).  The vertical blank begins a few PPU ticks later.
LateOAM(fill) == [j \in 1..256 |-> fill]

LateAPU(cycles) ==
    [NewAPU EXCEPT !.frameIRQ = TRUE, !.fcCycle2 = 2 * (cycles - 14915), !.fcStep = 3]

LatePPU(dot, ctrl, mask) ==
    [NewPPU EXCEPT !.scanline = 240, !.dot = dot, !.PPUCTRL = ctrl, !.PPUMASK = mask,
                   !.frame_odd = TRUE]

LateNmi ==
    LET c == [NewCPU EXCEPT !.P = 164, !.PC = 32773, !.A = 128, !.cycles = 27504]
    IN  [prg |-> Image(ProgNmi), cpu |-> c, ppu |-> LatePPU(331, 128, 0),
         oam |-> LateOAM(255),
         obs |-> [NewObs EXCEPT !.steps = 9168, !.callSteps = 9130, !.kind = "exec",
                                !.op = OpJMP, !.ret = 3,
                                !.pre = [c EXCEPT !.cycles = 27501]]]

LateToggle ==
    LET c == [NewCPU EXCEPT !.P = 164, !.PC = 32775, !.A = 128, !.cycles = 27503]
    IN  [prg |-> Image(ProgToggle), cpu |-> c, ppu |-> LatePPU(328, 0, 0),
         oam |-> LateOAM(255),
         obs |-> [NewObs EXCEPT !.steps = 9168, !.callSteps = 9129, !.kind = "exec",
                                !.op = OpLDAimm, !.ret = 2,
                                !.pre = [c EXCEPT !.cycles = 27501, !.P = 38,
                                                  !.A = 0, !.PC = 32773]]]

LatePoll ==
    LET c == [NewCPU EXCEPT !.P = 38, !.PC = 32773, !.A = 0, !.cycles = 27502]
    IN  [prg |-> Image(ProgPoll), cpu |-> c, ppu |-> LatePPU(325, 128, 0),
         oam |-> LateOAM(255),
         obs |-> [NewObs EXCEPT !.steps = 7858, !.callSteps = 7825, !.kind = "exec",
                                !.op = OpJMP, !.ret = 3,
                                !.pre = [c EXCEPT !.cycles = 27499, !.PC = 32776]]]

LateDma ==
    LET c == [NewCPU EXCEPT !.P = 36, !.PC = 32781, !.A = 2, !.cycles = 27502,
                            !.dma_stall_cycles = 171]
    IN  [prg |-> Image(ProgDma), cpu |-> c, ppu |-> LatePPU(325, 128, 0),
         oam |-> LateOAM(0),
         obs |-> [NewObs EXCEPT !.steps = 27180, !.callSteps = 27076, !.kind = "stall",
                                !.op = -1, !.ret = 1,
                                !.pre = [c EXCEPT !.cycles = 27501,
                                                  !.dma_stall_cycles = 172],
                                !.dmaLen = 513, !.dmaRun = 342,
                                !.dmaPre = [c EXCEPT !.cycles = 27156, !.PC = 32778,
                                                     !.dma_stall_cycles = 0],
                                !.dmaAt = [c EXCEPT !.cycles = 27160,
                                                    !.dma_stall_cycles = 513]]]

LateRender ==
    LET c == [NewCPU EXCEPT !.P = 36, !.PC = 32773, !.A = 8, !.cycles = 27504]
    IN  [prg |-> Image(ProgRender), cpu |-> c,
         ppu |-> [LatePPU(331, 0, 8) EXCEPT !.v = 2049],
         oam |-> LateOAM(255),
         obs |-> [NewObs EXCEPT !.steps = 9168, !.callSteps = 9130, !.kind = "exec",
                                !.op = OpJMP, !.ret = 3,
                                !.pre = [c EXCEPT !.cycles = 27501]]]

LateStates == {LateNmi, LateToggle, LatePoll, LateDma, LateRender}

InitVblank ==
    \E s \in LateStates :
        /\ prg = s.prg
        /\ cpu = s.cpu
        /\ sysRAM = <<>>
        /\ ppu = s.ppu
        /\ oam = s.oam
        /\ apu = LateAPU(s.cpu.cycles)
        /\ mapper = NewMapper("NROM")
        /\ nes = [NewNES EXCEPT !.pc = "step", !.cpuCycles = s.obs.ret, !.frames = 1]
        /\ obs = [s.obs EXCEPT !.apuTicks = s.cpu.cycles, !.ppuTicks = 3 * s.cpu.cycles]

SpecVblank == InitVblank /\ [][NextFrame]_vars

(***************************************************************************)
(* The CPU alone: calls of CPU::step from power-on on an MMC3 cartridge of  *)
(* which only the vectors are known (every other byte is an input, fixed    *)
(* once fetched), and between the calls what the rest of the console does   *)
(* to the CPU.                                                              *)
(***************************************************************************)
\* NMI -> $9000, RESET -> $8000, IRQ/BRK -> $A000.
CpuVectors ==
    [a \in 65530..65535 |->
        CASE a = NMIVector -> 0
          [] a = NMIVector + 1 -> 144
          [] a = ResetVector -> 0
          [] a = ResetVector + 1 -> 128
          [] a = IRQVector -> 0
          [] OTHER -> 160]

NMIHandler == Word(CpuVectors[NMIVector], CpuVectors[NMIVector + 1])
IRQHandler == Word(CpuVectors[IRQVector], CpuVectors[IRQVector + 1])

\* The instructions the cartridge may hold: the four that set irq_delay,
\* BRK, NOP and the MMC3 IRQ enable write (STA $E001).
CpuInstructions ==
    {<<op, 0, 0>> : op \in {OpBRK, OpPLP, OpRTI, OpCLI, OpSEI, OpNOP}}
    \cup {<<OpSTA, 1, 224>>}

\* The cartridge with the bytes of ins known at address pc.
Fetched(pc, ins) ==
    LET at == {a \in pc..(pc + InsLen(ins[1]) - 1) : a >= 32768 /\ a <= 65535}
    IN  [a \in DOMAIN prg \cup at |-> IF a \in DOMAIN prg THEN prg[a] ELSE ins[a - pc + 1]]

\* One call of CPU::step.
CpuStep ==
    /\ obs.steps < MaxSteps
    /\ \E ins \in CpuInstructions :
          /\ IF Fetches(M) THEN FetchOK(M, ins) ELSE ins = <<OpNOP, 0, 0>>
          /\ Stepped(step(M, ins))
          /\ prg' = IF Fetches(M) THEN Fetched(cpu.PC, ins) ELSE prg
    /\ UNCHANGED nes

\* runFrame saw the NMI line rise: cpu->nmi().
CallNmi ==
    /\ ~cpu.pending_nmi
    /\ cpu' = nmi(cpu)
    /\ UNCHANGED <<sysRAM, ppu, oam, apu, mapper, prg, nes, obs>>

\* The APU frame sequencer ended a 4-step sequence: frameIRQ = true.
FrameIrqRaise ==
    /\ ~apu.mode5 /\ ~apu.irqInhibit /\ ~apu.frameIRQ
    /\ apu' = [apu EXCEPT !.frameIRQ = TRUE]
    /\ UNCHANGED <<cpu, sysRAM, ppu, oam, mapper, prg, nes, obs>>

\* The PPU clocked the MMC3 scanline counter.
MapperClock ==
    /\ mapper.kind = "MMC3"
    /\ mapper' = ClockIrqCounter(mapper)
    /\ mapper' # mapper
    /\ UNCHANGED <<cpu, sysRAM, ppu, oam, apu, prg, nes, obs>>

\* CPU::reset is called on the running CPU.
CpuReset ==
    /\ obs.steps > 0
    /\ obs.resets < 1
    /\ SetM(reset(M))
    /\ obs' = [obs EXCEPT !.resets = @ + 1, !.kind = "reset", !.op = -1, !.pre = cpu]
    /\ UNCHANGED <<prg, nes>>

InitCpu ==
    /\ prg = CpuVectors
    /\ LET m == powerOn(<<>>, NewMapper("MMC3"))
       IN  /\ cpu = m.cpu
           /\ sysRAM = m.ram
           /\ ppu = m.ppu
           /\ oam = m.oam
           /\ apu = m.apu
           /\ mapper = m.map
    /\ nes = NewNES
    /\ obs = NewObs

NextCpu == CpuStep \/ CallNmi \/ FrameIrqRaise \/ MapperClock

SpecCpu == InitCpu /\ [][NextCpu]_vars

\* The same with calls of CPU::reset on the running CPU.
NextReset == NextCpu \/ CpuReset

SpecReset == InitCpu /\ [][NextReset]_vars

\* PHP followed by PLP, from every value of the flags and a choice of A and S.
\* The cartridge holds the two opcodes at the reset vector's target.
ValuesA == {0, 1, 127, 128, 255}
ValuesS == {253, 255, 0, 1}
ValuesP == {p \in 0..255 : TestBit(p, FlagU) /\ ~TestBit(p, FlagB)}

PhpPlpImage ==
    [a \in {32768, 32769} \cup DOMAIN CpuVectors |->
        IF a = 32768 THEN OpPHP ELSE IF a = 32769 THEN OpPLP ELSE CpuVectors[a]]

InitPhpPlp ==
    /\ prg = PhpPlpImage
    /\ \E a \in ValuesA, p \in ValuesP, sp \in ValuesS :
          LET m == powerOn(<<>>, NewMapper("NROM"))
          IN  /\ cpu = [m.cpu EXCEPT !.A = a, !.P = p, !.S = sp]
              /\ sysRAM = m.ram
              /\ ppu = m.ppu
              /\ oam = m.oam
              /\ apu = m.apu
              /\ mapper = m.map
    /\ nes = NewNES
    /\ obs = NewObs

\* One call of CPU::step on the PHP; PLP cartridge.
PhpPlpStep ==
    /\ cpu.PC \in {32768, 32769}
    /\ Stepped(step(M, <<prg[cpu.PC], 0, 0>>))
    /\ UNCHANGED <<prg, nes>>

NextPhpPlp == PhpPlpStep

SpecPhpPlp == InitPhpPlp /\ [][NextPhpPlp]_vars

\* One conditional branch, BEQ or BNE, at a choice of addresses around the
\* page boundary $80FF/$8100, with a choice of offsets and either value of Z.
BranchPCs == {33004, 33020, 33021, 33022, 33023, 33024, 33150}
BranchOffsets == {0, 1, 2, 4, 127, 128, 130, 252, 254}

BranchImage(pc, op, off) ==
    [a \in {pc, pc + 1} \cup DOMAIN CpuVectors |->
        IF a = pc THEN op ELSE IF a = pc + 1 THEN off ELSE CpuVectors[a]]

InitBranch ==
    /\ \E pc \in BranchPCs, op \in {OpBEQ, OpBNE}, off \in BranchOffsets, z \in BOOLEAN :
          LET m == powerOn(<<>>, NewMapper("NROM"))
          IN  /\ prg = BranchImage(pc, op, off)
              /\ cpu = [m.cpu EXCEPT !.PC = pc, !.P = IF z THEN SetBit(@, FlagZ) ELSE @]
              /\ sysRAM = m.ram
              /\ ppu = m.ppu
              /\ oam = m.oam
              /\ apu = m.apu
              /\ mapper = m.map
    /\ nes = NewNES
    /\ obs = NewObs

\* One call of CPU::step on the branch.
BranchStep ==
    /\ obs.steps = 0
    /\ Stepped(step(M, <<prg[cpu.PC], prg[cpu.PC + 1], 0>>))
    /\ UNCHANGED <<prg, nes>>

NextBranch == BranchStep

SpecBranch == InitBranch /\ [][NextBranch]_vars

(***************************************************************************)
(* The PPU alone, ticked from states that SpecVblank passes through in the  *)
(* frame after power-on and the next (the programs leave the PPU registers  *)
(* alone from there on), with reads of $2002 by the CPU in between.         *)
(***************************************************************************)
\* PPU ticks made in SpecPpu
MaxPpuTicks == 24

PpuSnap(sl, d, ctrl, mask, st, odd, fill) ==
    [ppu |-> [NewPPU EXCEPT !.scanline = sl, !.dot = d, !.PPUCTRL = ctrl,
                            !.PPUMASK = mask, !.PPUSTATUS = st, !.frame_odd = odd,
                            !.nmi_occurred = TestBit(st, 7)],
     oam |-> LateOAM(fill)]

\* ProgRender near the end of the pre-render line of the first frame
SnapPreSkip == [PpuSnap(261, 330, 0, 8, 0, TRUE, 255) EXCEPT !.ppu.v = 1]
\* ProgNmi at the same place, rendering disabled
SnapPreWrap == PpuSnap(261, 330, 128, 0, 0, TRUE, 255)
\* ProgNmi at the end of scanline 240, and at the end of scanline 260 with
\* the vertical blank flag still set
SnapPreVblank == PpuSnap(240, 331, 128, 0, 0, TRUE, 255)
SnapPreClear == PpuSnap(260, 330, 128, 0, 128, TRUE, 255)
\* ProgDma on scanline 9 of the second frame, the sprite overflow of
\* scanline 8 flagged (all 64 sprites have Y = 0)
SnapOverflow == PpuSnap(9, 60, 128, 0, 32, FALSE, 0)

PpuSnaps == {SnapPreSkip, SnapPreWrap, SnapPreVblank, SnapPreClear, SnapOverflow}

\* Dots from (0,0) to the position of p in a frame without a skipped dot.
FramePos(p) == p.scanline * (LastDot + 1) + p.dot

InitPpu ==
    /\ prg = CpuVectors
    /\ \E s \in PpuSnaps :
          LET m == powerOn(<<>>, NewMapper("NROM"))
          IN  /\ cpu = m.cpu
              /\ sysRAM = m.ram
              /\ ppu = s.ppu
              /\ oam = s.oam
              /\ apu = m.apu
              /\ mapper = m.map
              /\ obs = [NewObs EXCEPT !.pp.ft = FramePos(s.ppu),
                                      !.pp.vb = TestBit(s.ppu.PPUSTATUS, 7)]
    /\ nes = NewNES

\* ppu->tick()
PpuOnlyTick ==
    /\ obs.pp.ticks < MaxPpuTicks
    /\ ppu' = tick(ppu, oam, mapper.mir)
    /\ mapper' = tickMapper(ppu, mapper)
    /\ LET arrives == ppu'.scanline = 0 /\ ppu'.dot = 0 IN
       obs' = [obs EXCEPT
            !.pp.ticks = @ + 1,
            !.pp.ft = IF arrives THEN 0 ELSE @ + 1,
            !.pp.len = IF arrives THEN obs.pp.ft + 1 ELSE @,
            !.pp.vb = IF ppu'.scanline = VBlankScanline /\ ppu'.dot = 1 THEN TRUE
                      ELSE IF ppu'.scanline = LastScanline /\ ppu'.dot = 1 THEN FALSE
                      ELSE @]
    /\ UNCHANGED <<cpu, sysRAM, oam, apu, prg, nes>>

\* The CPU reads $2002.
StatusRead ==
    /\ SetM(cpuReadRegister(M, 8194).m)
    /\ obs' = [obs EXCEPT !.pp.vb = FALSE]
    /\ UNCHANGED <<prg, nes>>

NextPpu == PpuOnlyTick \/ StatusRead

SpecPpu == InitPpu /\ [][NextPpu]_vars

(***************************************************************************)
(* CPU accesses to the PPU registers $2000-$2007 through the bus, with no  *)
(* PPU tick in between, from the PPU states of PpuSnaps and either         *)
(* nametable mirroring of the cartridge header.                            *)
(***************************************************************************)
MaxRegAccesses == 4

\* $2000-$2007 and $3FFE, a mirror of $2006
RegAddresses == (8192 .. 8199) \cup {16382}
RegValues == {0, 33, 132}
Mirrorings == {0, 1}

InitPpuRegs ==
    /\ prg = CpuVectors
    /\ \E s \in PpuSnaps, mi \in Mirrorings :
          LET m == powerOn(<<>>, NewMapper("NROM"))
          IN  /\ cpu = m.cpu
              /\ sysRAM = m.ram
              /\ ppu = s.ppu
              /\ oam = s.oam
              /\ apu = m.apu
              /\ mapper = [m.map EXCEPT !.mir = mi]
    /\ obs = NewObs
    /\ nes = NewNES

\* bus.cpuWrite(a, v) on a PPU register
PpuRegWrite ==
    /\ obs.pr.n < MaxRegAccesses
    /\ \E a \in RegAddresses, v \in RegValues :
          /\ SetM(cpuWrite(M, a, v))
          /\ obs' = [obs EXCEPT !.pr = [n |-> @.n + 1, wr |-> TRUE,
                                        reg |-> a % 8, val |-> v]]
    /\ UNCHANGED <<prg, nes>>

\* bus.cpuRead(a) on a PPU register
PpuRegRead ==
    /\ obs.pr.n < MaxRegAccesses
    /\ \E a \in RegAddresses :
          LET r == cpuRead(M, a) IN
          /\ SetM(r.m)
          /\ obs' = [obs EXCEPT !.pr = [n |-> @.n + 1, wr |-> FALSE,
                                        reg |-> a % 8, val |-> r.val]]
    /\ UNCHANGED <<prg, nes>>

NextPpuRegs == PpuRegWrite \/ PpuRegRead

SpecPpuRegs == InitPpuRegs /\ [][NextPpuRegs]_vars

(***************************************************************************)
(* The PPUDATA round trip: write $2006 hi, write $2006 lo, write $2007 x,  *)
(* write $2006 hi, write $2006 lo, read $2007, read $2007.  It is made     *)
(* after power-on, a write of PPUCTRL and, in some runs, accesses that     *)
(* leave a byte in the read buffer and in the palette; the write toggle is *)
(* clear when it starts.                                                   *)
(***************************************************************************)
\* An access is <<TRUE, address, byte>> for a write, <<FALSE, address, 0>>
\* for a read.
Access(m, acc) == IF acc[1] THEN cpuWrite(m, acc[2], acc[3]) ELSE cpuRead(m, acc[2]).m

RoundTrip(hi, lo, x) ==
    << <<TRUE, 8198, hi>>, <<TRUE, 8198, lo>>, <<TRUE, 8199, x>>,
       <<TRUE, 8198, hi>>, <<TRUE, 8198, lo>>, <<FALSE, 8199, 0>>,
       <<FALSE, 8199, 0>> >>

\* Leaves $AA in the read buffer and in the cell at $2400.
FillBuffer ==
    << <<TRUE, 8198, 36>>, <<TRUE, 8198, 0>>, <<TRUE, 8199, 170>>,
       <<TRUE, 8198, 36>>, <<TRUE, 8198, 0>>, <<FALSE, 8199, 0>> >>

\* Leaves $2A in the palette entry at $3F00.
FillPalette == << <<TRUE, 8198, 63>>, <<TRUE, 8198, 0>>, <<TRUE, 8199, 42>> >>

DataPreludes == {<<>>, FillBuffer, FillPalette \o FillBuffer}
DataHis == {32, 35, 36, 47, 48, 62}
DataLos == {0, 31, 224, 255}
DataValues == {0, 63, 170, 255}
\* PPUCTRL with the VRAM increment 1 and 32
DataCtrls == {0, 4}

InitPpuData ==
    /\ prg = CpuVectors
    /\ \E c \in DataCtrls, mi \in Mirrorings, pre \in DataPreludes,
          hi \in DataHis, lo \in DataLos, x \in DataValues :
          LET m == powerOn(<<>>, NewMapper("NROM"))
          IN  /\ cpu = m.cpu
              /\ sysRAM = m.ram
              /\ ppu = m.ppu
              /\ oam = m.oam
              /\ apu = m.apu
              /\ mapper = [m.map EXCEPT !.mir = mi]
              /\ obs = [NewObs EXCEPT !.pd.prel = << <<TRUE, 8192, c>> >> \o pre,
                                      !.pd.hi = hi, !.pd.lo = lo, !.pd.x = x]
    /\ nes = NewNES

\* The next access before the round trip
DataPrelude ==
    /\ obs.pd.prel # <<>>
    /\ SetM(Access(M, Head(obs.pd.prel)))
    /\ obs' = [obs EXCEPT !.pd.prel = Tail(@)]
    /\ UNCHANGED <<prg, nes>>

\* The next write of the round trip
DataWrite ==
    /\ obs.pd.prel = <<>>
    /\ obs.pd.pc < 5
    /\ LET acc == RoundTrip(obs.pd.hi, obs.pd.lo, obs.pd.x)[obs.pd.pc + 1] IN
          SetM(cpuWrite(M, acc[2], acc[3]))
    /\ obs' = [obs EXCEPT !.pd.pc = @ + 1]
    /\ UNCHANGED <<prg, nes>>

\* The next read of the round trip
DataRead ==
    /\ obs.pd.pc \in {5, 6}
    /\ LET acc == RoundTrip(obs.pd.hi, obs.pd.lo, obs.pd.x)[obs.pd.pc + 1]
           r == cpuRead(M, acc[2])
       IN  /\ SetM(r.m)
           /\ obs' = [obs EXCEPT
                 !.pd.pc = @ + 1,
                 !.pd.stale = IF obs.pd.pc = 5 THEN ppu.vramReadBuffer ELSE @,
                 !.pd.r1 = IF obs.pd.pc = 5 THEN r.val ELSE @,
                 !.pd.r2 = IF obs.pd.pc = 6 THEN r.val ELSE @]
    /\ UNCHANGED <<prg, nes>>

NextPpuData == DataPrelude \/ DataWrite \/ DataRead

SpecPpuData == InitPpuData /\ [][NextPpuData]_vars

(***************************************************************************)
(* The MMC1 alone: the CPU writes to $8000-$FFFF.                           *)
(***************************************************************************)
\* CPU writes to the mapper in SpecMmc1
MaxMmc1Writes == 10
Mmc1Addresses == {32768, 40960, 49152, 57344, 65535}
Mmc1Values == {0, 1, 30, 128, 255}

\* The scenario $01, $00, $00, $00, $00, $80 to $8000 from an empty shifter:
\* how many of its writes the last writes have been.
ScenarioNext(k, empty, a, v) ==
    IF a # 32768 THEN 0
    ELSE IF k \in 1..4 /\ v = 0 THEN k + 1
    ELSE IF k = 5 /\ v = 128 THEN 6
    ELSE IF empty /\ v = 1 THEN 1
    ELSE 0

InitMmc1 ==
    /\ prg = CpuVectors
    /\ LET m == powerOn(<<>>, NewMMC1)
       IN  /\ cpu = m.cpu
           /\ sysRAM = m.ram
           /\ ppu = m.ppu
           /\ oam = m.oam
           /\ apu = m.apu
           /\ mapper = m.map
    /\ nes = NewNES
    /\ obs = NewObs

\* Bus::cpuWrite to $8000-$FFFF with an MMC1 cartridge.
Mmc1Write ==
    /\ obs.m1.writes < MaxMmc1Writes
    /\ \E a \in Mmc1Addresses, v \in Mmc1Values :
          /\ mapper' = mmc1Write(mapper, a, v)
          /\ obs' = [obs EXCEPT
                !.m1.writes = @ + 1,
                !.m1.a = a,
                !.m1.v = v,
                !.m1.bits = IF v >= 128 \/ Len(@) = 4 THEN <<>> ELSE Append(@, v % 2),
                !.m1.discarded = (v >= 128 /\ Len(obs.m1.bits) > 0)
                                 \/ (@ /\ ~(obs.m1.bits = <<>> /\ obs.m1.v < 128)),
                !.m1.scen = ScenarioNext(@, obs.m1.bits = <<>>, a, v),
                !.m1.fifths = IF v < 128 /\ Len(obs.m1.bits) = 4 THEN @ + 1 ELSE @]
    /\ UNCHANGED <<cpu, sysRAM, ppu, oam, apu, prg, nes>>

NextMmc1 == Mmc1Write

SpecMmc1 == InitMmc1 /\ [][NextMmc1]_vars

(***************************************************************************)
(* The MMC3 alone: the PPU feeds it one A12 sample per dot and the dot-260  *)
(* hook once per scanline, the CPU writes its registers.                    *)
(***************************************************************************)
\* values written to the IRQ latch
LatchValues == {0, 1, 3, 5}
\* The writes made: a latch value to $C000 or its mirror $DFFE, and a write
\* (whose value is ignored) to $C001, $E000, $E001 or a mirror of each.
IrqWrites ==
    {<<49152, v>> : v \in LatchValues} \cup {<<57342, 1>>}
    \cup {<<a, 0>> : a \in {49153, 57343, 57344, 65534, 57345, 65535}}

\* The sample is a rising edge as the observer counts it.
Rises(level) == level /\ ~obs.mmc.high
ValidRise(level) == Rises(level) /\ obs.mmc.lows >= 8

InitMmc3 ==
    /\ prg = CpuVectors
    /\ LET m == powerOn(<<>>, NewMapper("MMC3"))
       IN  /\ cpu = m.cpu
           /\ sysRAM = m.ram
           /\ ppu = m.ppu
           /\ oam = m.oam
           /\ apu = m.apu
           /\ mapper = m.map
    /\ nes = NewNES
    /\ obs = NewObs

\* cart->mapper->ppuA12Clock(level)
A12Sample ==
    /\ \E level \in BOOLEAN :
          /\ mapper' = ppuA12Clock(mapper, level)
          /\ obs' = [obs EXCEPT
                !.mmc.lows = IF level THEN 0 ELSE IF @ < 8 THEN @ + 1 ELSE @,
                !.mmc.high = level,
                !.mmc.edges = IF obs.mmc.armed /\ ValidRise(level) THEN @ + 1 ELSE @,
                !.mmc.invalid = @ \/ (obs.mmc.armed /\ Rises(level) /\ ~ValidRise(level)),
                !.mmc.armed = @ /\ ~(ValidRise(level) /\ obs.mmc.edges > obs.mmc.n),
                !.mmc.zeroOff = @ \/ (~mapper.irqEnable /\ mapper'.irqCounter = 0
                                        /\ mapper'.irqCounter # mapper.irqCounter)]
    /\ UNCHANGED <<cpu, sysRAM, ppu, oam, apu, prg, nes>>

\* cart->mapper->ppuOnScanlineDot260(renderingEnabled())
Dot260 ==
    /\ \E rendering \in BOOLEAN :
          /\ mapper' = ppuOnScanlineDot260(mapper, rendering)
          /\ obs' = [obs EXCEPT
                !.mmc.hooked = @ \/ (obs.mmc.armed /\ rendering /\ ~mapper.sawRiseThisLine),
                !.mmc.zeroOff = @ \/ (~mapper.irqEnable /\ mapper'.irqCounter = 0
                                        /\ mapper'.irqCounter # mapper.irqCounter)]
    /\ mapper' # mapper
    /\ UNCHANGED <<cpu, sysRAM, ppu, oam, apu, prg, nes>>

\* The observer after a CPU write to a mapper register.
ObserveMmcWrite(mp) ==
    [obs EXCEPT
        !.mmc.armed = mp.irqReload /\ mp.irqEnable /\ mp.irqLatch >= 1 /\ ~mp.irqFlag,
        !.mmc.n = mp.irqLatch,
        !.mmc.c0 = mp.irqCounter,
        !.mmc.edges = 0,
        !.mmc.invalid = FALSE,
        !.mmc.hooked = FALSE,
        !.mmc.acked = ~mp.irqEnable /\ (@ \/ mapper.irqFlag),
        !.mmc.zeroOff = @ /\ ~mp.irqEnable]

\* Bus::cpuWrite to an IRQ register of the mapper.
IrqRegWrite ==
    /\ \E w \in IrqWrites :
          /\ mapper' = mapperWrite(mapper, w[1], w[2])
          /\ obs' = ObserveMmcWrite(mapper')
    /\ UNCHANGED <<cpu, sysRAM, ppu, oam, apu, prg, nes>>

NextMmc3 == A12Sample \/ Dot260 \/ IrqRegWrite

SpecMmc3 == InitMmc3 /\ [][NextMmc3]_vars

\* The same with writes to the bank registers as well: $8000 (bank select
\* 2, both modes set), $8001 (bank data), a latch of 2 to $C000, and $C001,
\* $E000, $E001 with the mirrors $FFFE of $E000 and $FFFF of $E001.
RegWrites ==
    {<<32768, 194>>, <<32769, 7>>, <<49152, 2>>, <<49153, 0>>,
     <<57344, 0>>, <<65534, 255>>, <<57345, 0>>, <<65535, 0>>}

\* Bus::cpuWrite to a register of the mapper.
RegWrite ==
    /\ \E w \in RegWrites :
          /\ mapper' = mapperWrite(mapper, w[1], w[2])
          /\ obs' = [obs EXCEPT
                !.kind = "mmcwrite", !.op = w[1], !.mmc.wpar = 1 - @,
                !.mmc.acked = ~mapper'.irqEnable /\ (@ \/ mapper.irqFlag),
                !.mmc.zeroOff = @ /\ ~mapper'.irqEnable]
    /\ UNCHANGED <<cpu, sysRAM, ppu, oam, apu, prg, nes>>

NextMmc3Regs == A12Sample \/ Dot260 \/ RegWrite

SpecMmc3Regs == InitMmc3 /\ [][NextMmc3Regs]_vars

C2_NmiSampledEveryTick ==
    /\ [][nes.pc = "ppu" =>
            LET level == ppu'.nmi_occurred /\ TestBit(ppu'.PPUCTRL, 7)
                called == level /\ ~nes.nmiLinePrev
            IN  /\ obs'.ppuTicks = obs.ppuTicks + 1
                /\ nes'.nmiLinePrev = level
                /\ obs'.nmiCalls = obs.nmiCalls + (IF called THEN 1 ELSE 0)
                /\ called => cpu'.pending_nmi
                /\ (ppu'.scanline = 241 /\ ppu'.dot = 1 /\ TestBit(ppu'.PPUCTRL, 7))
                      => called]_vars
    /\ [](obs.vbNmiDue => cpu.pending_nmi)

\* The iteration in which the PPU reached (241,1) with NMI enabled has ended:
\* cpu.nmi() was called once and the next cpu.step() finds pending_nmi set.
C2_Witness ==
    /\ nes.pc = "step"
    /\ obs.vbNmiDue
    /\ ppu.scanline = 241
    /\ ppu.nmi_occurred
    /\ cpu.pending_nmi
    /\ obs.nmiCalls = 1

(***************************************************************************)
(* C3, as claimed.  Between the PPU setting vblank at (241,1) and clearing  *)
(* it on the pre-render line cpu.nmi() is called at most once, whatever the *)
(* program writes to $2000 and reads from $2002.                            *)
(***************************************************************************)
C3_AtMostOncePerVblank == obs.vblNmis <= 1

(***************************************************************************)
(* C3, amended.  Within one vertical blank cpu.nmi() is called at most once *)
(* plus once for every write to $2000 in it that turns PPUCTRL bit 7 from 0 *)
(* to 1: the edge detector fires again when the program re-enables NMI      *)
(* while the vblank flag is still set, and never otherwise.                 *)
(***************************************************************************)
C3_OncePerEnable == obs.vblNmis <= 1 + obs.vblEnables

\* A vertical blank in which the program re-enabled NMI and got a second call.
C3_Witness ==
    /\ obs.vbl
    /\ obs.vblEnables = 1
    /\ obs.vblNmis = 2

\* The PPU ticks of a frame, those left before the PPU wraps to (0,0), and
\* a measure of the work a runFrame call has left.
FrameTicks == (LastDot + 1) * (LastScanline + 1)

TicksToWrap == FrameTicks - (ppu.scanline * (LastDot + 1) + ppu.dot)

CallRank ==
    IF nes.pc = "idle" THEN 0
    ELSE IF nes.frameDone THEN 3 * nes.cpuCycles - nes.i
    ELSE 32 + 32 * TicksToWrap
         + (CASE nes.pc = "step" -> 9
              [] nes.pc = "apu" -> 1 + nes.cpuCycles - nes.i
              [] OTHER -> 0)

\* The loop is not stuck: the ticks are unconditional and cpu.step() has an
\* instruction to fetch or an interrupt or stall to serve.
LoopCanStep ==
    nes.pc = "step" =>
        \E ins \in Instructions :
            IF Fetches(M) THEN FetchOK(M, ins) ELSE ins = <<OpNOP, 0, 0>>

(***************************************************************************)
(* C4.  Every runFrame call returns after finitely many CPU steps: while    *)
(* the call runs, the loop can take its next step and each one lowers a     *)
(* natural-number measure (the PPU ticks left to the wrap, then the ticks   *)
(* left in the iteration), and a call takes at most one step per three PPU  *)
(* ticks of a frame.  No iteration starts once the PPU has wrapped to (0,0) *)
(* in the call, and the call returns only after the last PPU tick of that   *)
(* iteration: on scanline 0 and with the 1:1:3 tick ratio intact.           *)
(***************************************************************************)
C4_ReturnsAtWrap ==
    /\ [](nes.pc \in {"step", "apu"} => ~obs.wrapped)
    /\ [](nes.pc = "idle" /\ obs.callSteps > 0 =>
            /\ obs.wrapped
            /\ ppu.scanline = 0
            /\ ppu.dot < 3 * obs.ret
            /\ obs.apuTicks = cpu.cycles
            /\ obs.ppuTicks = 3 * cpu.cycles)
    /\ [](3 * obs.callSteps <= FrameTicks + 3)
    /\ [](nes.pc # "idle" => CallRank > 0 /\ LoopCanStep)
    /\ [][nes.pc # "idle" => CallRank' < CallRank]_vars

\* runFrame has returned from a call whose last iteration ticked on past the
\* wrap: the PPU stands after dot 0 of scanline 0.
C4_Witness ==
    /\ nes.pc = "idle"
    /\ obs.callSteps > 0
    /\ obs.wrapped
    /\ ppu.scanline = 0
    /\ ppu.dot > 0
    /\ obs.ppuTicks = 3 * cpu.cycles

\* A transition that is one call of CPU::step.
IsStep == obs'.steps = obs.steps + 1

(***************************************************************************)
(* C5, as claimed.  No IRQ sequence is entered by the step that follows the *)
(* execution of CLI, SEI, PLP or RTI, whatever the IRQ lines and the        *)
(* pending_irq latch hold, and only that one boundary is suppressed: after  *)
(* any other instruction an asserted line with I clear and no NMI pending   *)
(* enters the IRQ sequence.                                                 *)
(***************************************************************************)
C5_IrqDelayedOneInstruction ==
    [][IsStep =>
         /\ (obs.kind = "exec" /\ obs.op \in DelayOps) => obs'.kind # "irq"
         /\ (obs.kind = "exec" /\ obs.op \notin DelayOps /\ ~getf(cpu, FlagI)
               /\ (irqPending(mapper) \/ irqLine(apu)) /\ ~cpu.pending_nmi
               /\ cpu.dma_stall_cycles = 0) => obs'.kind = "irq"]_vars

\* The three bytes an interrupt entry from CPU state c leaves on the stack.
Pushed(c, ram) ==
    <<RamRead(ram, 256 + c.S), RamRead(ram, 256 + U8(c.S + 255)),
      RamRead(ram, 256 + U8(c.S + 254))>>

(***************************************************************************)
(* C6.  A step with dma_stall_cycles = 0 and pending_nmi set services the   *)
(* NMI whatever I, irq_delay and pending_irq are, and no other step does:   *)
(* it pushes PC high, PC low and P with B = 0 and U = 1, sets I, loads PC   *)
(* from $FFFA/$FFFB, returns 7, clears pending_nmi, executes no opcode and  *)
(* leaves a latched pending_irq latched.                                    *)
(***************************************************************************)
C6_NmiEntry ==
    [][IsStep =>
         /\ obs'.kind = "nmi" <=> (cpu.dma_stall_cycles = 0 /\ cpu.pending_nmi)
         /\ obs'.kind = "nmi" =>
               /\ Pushed(cpu, sysRAM') =
                     <<cpu.PC \div 256, cpu.PC % 256, SetBit(ClrBit(cpu.P, FlagB), FlagU)>>
               /\ cpu'.S = U8(cpu.S + 253)
               /\ cpu'.P = SetBit(cpu.P, FlagI)
               /\ cpu'.PC = Word(prg[NMIVector], prg[NMIVector + 1])
               /\ obs'.ret = 7
               /\ cpu'.cycles = cpu.cycles + 7
               /\ ~cpu'.pending_nmi
               /\ obs'.op = -1
               /\ prg' = prg
               /\ <<cpu'.A, cpu'.X, cpu'.Y>> = <<cpu.A, cpu.X, cpu.Y>>
               /\ cpu.pending_irq => cpu'.pending_irq]_vars

\* An NMI was serviced at a boundary where I was clear and an IRQ line was
\* asserted: the IRQ stays latched behind it.
C6_Witness ==
    /\ obs.kind = "nmi"
    /\ ~getf(obs.pre, FlagI)
    /\ getf(cpu, FlagI)
    /\ cpu.pending_irq
    /\ ~cpu.pending_nmi
    /\ cpu.PC = NMIHandler
    /\ cpu.S = U8(obs.pre.S + 253)

(***************************************************************************)
(* C7.  The IRQ sequence is entered only by a step that finds               *)
(* dma_stall_cycles = 0, no NMI pending and I clear.  It pushes PC and P    *)
(* with B = 0, sets I, loads PC from $FFFE/$FFFF, returns 7 and calls the   *)
(* mapper's irqAck once: right after it the mapper's irqPending and the     *)
(* CPU's pending_irq are false.                                             *)
(***************************************************************************)
C7_IrqEntry ==
    [][(IsStep /\ obs'.kind = "irq") =>
         /\ cpu.dma_stall_cycles = 0
         /\ ~cpu.pending_nmi
         /\ ~getf(cpu, FlagI)
         /\ Pushed(cpu, sysRAM') =
               <<cpu.PC \div 256, cpu.PC % 256, ClrBit(cpu.P, FlagB)>>
         /\ cpu'.S = U8(cpu.S + 253)
         /\ cpu'.P = SetBit(cpu.P, FlagI)
         /\ cpu'.PC = Word(prg[IRQVector], prg[IRQVector + 1])
         /\ obs'.ret = 7
         /\ cpu'.cycles = cpu.cycles + 7
         /\ obs'.acks = obs.acks + 1
         /\ ~irqPending(mapper')
         /\ ~cpu'.pending_irq
         /\ prg' = prg]_vars

\* The IRQ sequence was entered for the MMC3 IRQ and acknowledged it.
C7_Witness ==
    /\ obs.kind = "irq"
    /\ obs.acks = 1
    /\ mapper.irqEnable
    /\ ~irqPending(mapper)
    /\ ~irqLine(apu)
    /\ ~cpu.pending_irq
    /\ getf(cpu, FlagI)
    /\ cpu.PC = IRQHandler

\* What a stalled step must leave alone.
Registers(c) == <<c.A, c.X, c.Y, c.S, c.P, c.PC, c.irq_delay, c.pending_irq>>

(***************************************************************************)
(* C8.  A write to $4014 sets dma_stall_cycles to 513 when cpu.cycles is    *)
(* even at the write and to 514 when it is odd.  Exactly that many steps    *)
(* follow that return 1, fetch nothing, service no interrupt and change     *)
(* only cycles and dma_stall_cycles, each followed by its APU tick and      *)
(* three PPU ticks; the step after them starts at the instruction that      *)
(* follows the write, with the registers the write left.                    *)
(***************************************************************************)
C8_DmaStall ==
    /\ obs.dmaLen > 0 =>
          /\ obs.dmaLen = 513 + (obs.dmaPre.cycles % 2)
          /\ obs.dmaAt.dma_stall_cycles = obs.dmaLen
          /\ obs.dmaAt.PC = U16(obs.dmaPre.PC + 3)
          /\ obs.dmaRun <= obs.dmaLen
    /\ obs.kind = "stall" =>
          /\ obs.ret = 1
          /\ obs.op = -1
          /\ obs.dmaRun >= 1
          /\ Registers(cpu) = Registers(obs.dmaAt)
          /\ cpu.dma_stall_cycles = obs.dmaLen - obs.dmaRun
          /\ cpu.cycles = obs.dmaAt.cycles + obs.dmaRun
          /\ nes.pc = "step" => /\ obs.apuTicks = cpu.cycles
                                /\ obs.ppuTicks = 3 * cpu.cycles
    /\ (obs.dmaLen > 0 /\ obs.kind # "stall" /\ cpu.dma_stall_cycles = 0) =>
          obs.dmaRun = obs.dmaLen
    /\ (obs.dmaLen > 0 /\ obs.kind # "stall" /\ obs.pre.dma_stall_cycles = 0
          /\ obs.pre.cycles = obs.dmaAt.cycles + obs.dmaLen) =>
          /\ Registers(obs.pre) = Registers(obs.dmaAt)
          /\ obs.kind = IF obs.pre.pending_nmi THEN "nmi" ELSE "exec"
          /\ obs.kind = "exec" => obs.op = cartRead(obs.dmaAt.PC)

\* The step after a 514-cycle stall has executed the instruction that follows
\* the write to $4014.
C8_Witness ==
    /\ obs.dmaLen = 514
    /\ obs.dmaPre.cycles % 2 = 1
    /\ obs.dmaRun = 514
    /\ obs.kind = "exec"
    /\ obs.pre.PC = obs.dmaAt.PC
    /\ obs.pre.cycles = obs.dmaAt.cycles + 514
    /\ cpu.dma_stall_cycles = 0

(***************************************************************************)
(* C9, as claimed.  CPU::reset, called in any state of the CPU, leaves      *)
(* S = $FD, P = $24, PC = the word at $FFFC/$FFFD, cycles = 0,              *)
(* irq_delay = 0, dma_stall_cycles = 0 and both pending flags false.        *)
(***************************************************************************)
C9_ResetState ==
    [][obs'.resets = obs.resets + 1 =>
         /\ cpu'.S = 253
         /\ cpu'.P = 36
         /\ cpu'.PC = Word(prg[ResetVector], prg[ResetVector + 1])
         /\ cpu'.cycles = 0
         /\ cpu'.irq_delay = 0
         /\ cpu'.dma_stall_cycles = 0
         /\ ~cpu'.pending_nmi
         /\ ~cpu'.pending_irq]_vars

\* The flags PLP takes from the stack.
RestoredFlags == {FlagN, FlagV, FlagD, FlagI, FlagZ, FlagC}

(***************************************************************************)
(* C10, as claimed.  PHP followed by PLP restores P for every A and P: the  *)
(* bits N, V, D, I, Z and C are those before the PHP, B is not restored     *)
(* (it stays 0), U is 1, and S is back at its value before the PHP.         *)
(***************************************************************************)
C10_PhpPlpRestoresP ==
    (obs.kind = "exec" /\ obs.op = OpPLP /\ obs.op2 = OpPHP) =>
        /\ \A f \in RestoredFlags : getf(cpu, f) = getf(obs.pre2, f)
        /\ ~getf(cpu, FlagB)
        /\ getf(cpu, FlagU)
        /\ cpu.S = obs.pre2.S

\* The step executed the BEQ of the scenario: PC = $80FE, Z = 1, operand $02.
BeqScenario ==
    /\ obs.kind = "exec"
    /\ obs.op = OpBEQ
    /\ obs.pre.PC = 33022
    /\ getf(obs.pre, FlagZ)
    /\ cartRead(33023) = 2

(***************************************************************************)
(* C11, as claimed.  With PC = $80FE, Z = 1 and BEQ +2 at $80FE, one step   *)
(* leaves PC = $8104 and returns 4 cycles.                                  *)
(***************************************************************************)
C11_BeqPageCross == BeqScenario => cpu.PC = 33028 /\ obs.ret = 4

(***************************************************************************)
(* C11, amended.  A branch step leaves PC two past the opcode when not      *)
(* taken and returns 2; taken, it adds the signed operand to that address   *)
(* and returns 3, or 4 when the target is on another page than the address  *)
(* after the operand.  BEQ +2 at $80FE with Z = 1 leaves PC = $8102 and     *)
(* returns 3: $8100 and $8102 are on one page.                              *)
(***************************************************************************)
C11_BranchTiming ==
    /\ BeqScenario => cpu.PC = 33026 /\ obs.ret = 3
    /\ (obs.kind = "exec" /\ obs.op \in {OpBEQ, OpBNE}) =>
          LET next == U16(obs.pre.PC + 2)
              taken == getf(obs.pre, FlagZ) = (obs.op = OpBEQ)
              target == U16(next + Int8(cartRead(U16(obs.pre.PC + 1))) + 65536)
          IN  /\ cpu.PC = IF taken THEN target ELSE next
              /\ obs.ret = IF ~taken THEN 2
                           ELSE IF next \div 256 = target \div 256 THEN 3 ELSE 4
              /\ cpu.P = obs.pre.P

\* The BEQ of the scenario was taken to $8102 in 3 cycles.
C11_Witness == BeqScenario /\ cpu.PC = 33026 /\ obs.ret = 3 /\ cpu.cycles = 3

\* A reload was left pending with IRQs enabled and latch n, and since then
\* the mapper has seen A12 samples only, every rise after 8 low samples.
CountdownRun ==
    /\ obs.mmc.armed
    /\ ~obs.mmc.invalid
    /\ ~obs.mmc.hooked

LatchFiveRun ==
    /\ obs.mmc.armed
    /\ ~obs.mmc.hooked
    /\ obs.mmc.n = 5
    /\ obs.mmc.c0 = 0

(***************************************************************************)
(* C13, as claimed.  With latch = 5, counter = 0, a reload pending and IRQs *)
(* enabled, the IRQ flag becomes true exactly on the 5th valid A12 rising   *)
(* edge after the reload write.                                             *)
(***************************************************************************)
C13_FifthEdge == LatchFiveRun => (irqPending(mapper) <=> obs.mmc.edges >= 5)

(***************************************************************************)
(* C13, amended.  With latch = 5, counter = 0, a reload pending and IRQs    *)
(* enabled, the IRQ flag becomes true exactly on the 6th valid A12 rising   *)
(* edge after the reload write: the 1st valid edge reloads the counter to   *)
(* 5, the next five bring it to 0.  Rising edges that follow fewer than 8   *)
(* low samples do not count.                                                *)
(***************************************************************************)
C13_SixthEdge ==
    LatchFiveRun =>
        /\ irqPending(mapper) <=> obs.mmc.edges >= 6
        /\ obs.mmc.edges >= 1 => mapper.irqCounter = 6 - obs.mmc.edges

\* The 6th valid edge has raised the IRQ, rising edges that came too soon
\* after the previous one having been ignored.
C13_Witness ==
    /\ LatchFiveRun
    /\ obs.mmc.invalid
    /\ obs.mmc.edges = 6
    /\ mapper.irqCounter = 0
    /\ irqPending(mapper)

\* The registers of the MMC3 that a write to $E000 must leave alone.
BankAndCounter(mp) ==
    <<mp.bankSelect, mp.bank, mp.prgMode, mp.chrMode, mp.mir, mp.prgRAMEnable,
      mp.irqLatch, mp.irqCounter, mp.irqReload,
      mp.prevA12, mp.a12LowCycles, mp.sawRiseThisLine>>

\* The transition is a CPU write to an even address in $E000-$FFFF.
IsDisableWrite ==
    /\ obs'.mmc.wpar # obs.mmc.wpar
    /\ obs'.op >= 57344
    /\ obs'.op % 2 = 0

\* The transition clocks the scanline counter: a sample that is a rising
\* edge after 8 low samples, or a dot-260 hook that found none in the line.
IsCounterClock ==
    /\ obs'.mmc.wpar = obs.mmc.wpar
    /\ \/ mapper'.prevA12 /\ ~mapper.prevA12 /\ obs.mmc.lows >= 8
       \/ /\ mapper'.prevA12 = mapper.prevA12
          /\ mapper'.a12LowCycles = mapper.a12LowCycles
          /\ ~mapper.sawRiseThisLine
          /\ mapper' # mapper

(***************************************************************************)
(* C14.  A CPU write to an even address in $E000-$FFFF acknowledges and     *)
(* disables: the IRQ flag is false right after it and stays false through   *)
(* every A12 sample and dot-260 hook until a write to an odd address in     *)
(* $E000-$FFFF enables IRQs again (only such a write enables).  While       *)
(* disabled the counter still reloads from the latch when a reload is       *)
(* pending or it is 0 and counts down otherwise.  The disabling write       *)
(* changes no bank register, latch, counter or reload flag.                 *)
(***************************************************************************)
C14_DisableAcks ==
    /\ [](~mapper.irqEnable => ~irqPending(mapper))
    /\ [][IsDisableWrite =>
            /\ ~mapper'.irqEnable
            /\ ~irqPending(mapper')
            /\ BankAndCounter(mapper') = BankAndCounter(mapper)]_vars
    /\ [][(~mapper.irqEnable /\ mapper'.irqEnable) =>
            (obs'.mmc.wpar # obs.mmc.wpar /\ obs'.op >= 57344 /\ obs'.op % 2 = 1)]_vars
    /\ [][(IsCounterClock /\ ~mapper.irqEnable) =>
            /\ mapper'.irqCounter =
                  IF mapper.irqReload \/ mapper.irqCounter = 0 THEN mapper.irqLatch
                  ELSE mapper.irqCounter - 1
            /\ ~mapper'.irqReload
            /\ ~irqPending(mapper')]_vars

\* A write to $E000 acknowledged a pending IRQ, and with IRQs still disabled
\* the counter has since counted down to 0 without raising the flag.
C14_Witness ==
    /\ obs.mmc.acked
    /\ obs.mmc.zeroOff
    /\ ~mapper.irqEnable
    /\ mapper.irqLatch = 2
    /\ mapper.irqCounter = 0
    /\ ~irqPending(mapper)
    /\ mapper.bank[2] = 7

\* The internal registers of the MMC1.
Mmc1Registers(mp) ==
    <<mp.ctrl, mp.chrBank0, mp.chrBank1, mp.prgBank, mp.prgRamWriteEnabled>>

\* The 5-bit value of bits given first bit lowest.
LsbFirst(bits) ==
    bits[1] + 2 * bits[2] + 4 * bits[3] + 8 * bits[4] + 16 * bits[5]

\* The registers after value is committed through address a.
Committed(mp, a, value) ==
    LET reg == (a \div 8192) % 4 IN
    <<IF reg = 0 THEN value ELSE mp.ctrl,
      IF reg = 1 THEN value ELSE mp.chrBank0,
      IF reg = 2 THEN value ELSE mp.chrBank1,
      IF reg = 3 THEN value % 16 ELSE mp.prgBank,
      IF reg = 3 THEN value < 16 ELSE mp.prgRamWriteEnabled>>

(***************************************************************************)
(* C15.  Of the CPU writes to $8000-$FFFF, exactly every 5th write with bit *)
(* 7 clear counted since the last commit or reset commits a register: the   *)
(* value is the low bits of those five writes, first write lowest, and the  *)
(* register is the one bits 13-14 of the fifth write's address select (the  *)
(* PRG register takes bits 0-3, bit 4 is its RAM write protect).  The first *)
(* four writes change no register.  A write with bit 7 set commits nothing, *)
(* discards the buffered bits and sets control bits 2 and 3.                *)
(***************************************************************************)
C15_CommitEveryFifth ==
    [][obs'.m1.writes = obs.m1.writes + 1 =>
         LET a == obs'.m1.a
             v == obs'.m1.v
             bits == obs.m1.bits
         IN  /\ mapper.loadCount = Len(bits)
             /\ IF v >= 128 THEN
                    /\ Mmc1Registers(mapper') =
                          <<SetBit(SetBit(mapper.ctrl, 2), 3), mapper.chrBank0,
                            mapper.chrBank1, mapper.prgBank, mapper.prgRamWriteEnabled>>
                    /\ mapper'.loadCount = 0
                    /\ mapper'.loadReg = 0
                ELSE IF Len(bits) < 4 THEN
                    /\ Mmc1Registers(mapper') = Mmc1Registers(mapper)
                    /\ mapper'.loadCount = Len(bits) + 1
                ELSE
                    /\ Mmc1Registers(mapper') =
                          Committed(mapper, a, LsbFirst(Append(bits, v % 2)))
                    /\ mapper'.loadCount = 0
                    /\ mapper'.loadReg = 0]_vars

\* A write with bit 7 set discarded buffered bits, and the fifth write after
\* it has committed 10101 to CHR bank 1.
C15_Witness ==
    /\ obs.m1.fifths = 1
    /\ obs.m1.discarded
    /\ obs.m1.bits = <<>>
    /\ obs.m1.v < 128
    /\ obs.m1.a = 49152
    /\ mapper.chrBank1 = 21
    /\ mapper.loadCount = 0

(***************************************************************************)
(* C16, as claimed.  From an empty shifter the writes $01, $00, $00, $00,   *)
(* $00 to $8000 commit control = $00, and a following write of $80 to       *)
(* $8000 makes control $0C.                                                 *)
(***************************************************************************)
C16_ControlScenario ==
    /\ obs.m1.scen = 5 => mapper.ctrl = 0
    /\ obs.m1.scen = 6 => mapper.ctrl = 12

(***************************************************************************)
(* C16, amended.  From an empty shifter the writes $01, $00, $00, $00, $00  *)
(* to $8000 commit control = $01 (the first bit written is bit 0), and a    *)
(* following write of $80 to $8000 resets the shifter and sets control      *)
(* bits 2 and 3: control is then $0D.                                       *)
(***************************************************************************)
C16_ControlLsbFirst ==
    /\ obs.m1.scen = 5 => mapper.ctrl = 1 /\ mapper.loadCount = 0
    /\ obs.m1.scen = 6 => mapper.ctrl = 13 /\ mapper.loadCount = 0 /\ mapper.loadReg = 0

\* The six writes of the scenario have been made.
C16_Witness == obs.m1.scen = 6 /\ obs.m1.writes = 6 /\ mapper.ctrl = 13

\* The transition is a PPU tick; one that brings the PPU to (sl, d).
IsPpuTick == obs'.pp.ticks = obs.pp.ticks + 1
TickTo(sl, d) == IsPpuTick /\ ppu'.scanline = sl /\ ppu'.dot = d

(***************************************************************************)
(* C17, as claimed.  The PPU stays within 0..340 x 0..261.  A frame, from   *)
(* one arrival at (0,0) to the next, lasts 89342 ticks, or 89341 when       *)
(* rendering is enabled and the frame is odd (its dot (261,339) is          *)
(* skipped), and the odd-frame flag toggles at every arrival at (0,0), so   *)
(* that with rendering enabled the lengths alternate.                       *)
(***************************************************************************)
C17_FrameLength ==
    /\ [](ppu.dot \in 0..340 /\ ppu.scanline \in 0..261)
    /\ [][TickTo(0, 0) =>
            /\ obs'.pp.len = IF renderingEnabled(ppu) /\ ppu.frame_odd
                             THEN 89341 ELSE 89342
            /\ ppu'.frame_odd # ppu.frame_odd]_vars

\* The PPU is between (241,1) and (261,0), both included.
InVblankSpan ==
    \/ ppu.scanline = VBlankScanline /\ ppu.dot >= 1
    \/ ppu.scanline > VBlankScanline /\ ppu.scanline < LastScanline
    \/ ppu.scanline = LastScanline /\ ppu.dot = 0

(***************************************************************************)
(* C18, as claimed.  PPUSTATUS bit 7 and nmi_occurred become set exactly    *)
(* when a tick brings the PPU to (241,1); with no read of $2002 they stay   *)
(* set while the PPU is anywhere from (241,1) to (261,0); and bits 7, 6 and *)
(* 5 are cleared exactly when a tick brings the PPU to (261,1).             *)
(***************************************************************************)
C18_VblankTiming ==
    /\ [][TickTo(241, 1) => TestBit(ppu'.PPUSTATUS, 7) /\ ppu'.nmi_occurred]_vars
    /\ [][(IsPpuTick /\ ~TestBit(ppu.PPUSTATUS, 7) /\ TestBit(ppu'.PPUSTATUS, 7))
            => TickTo(241, 1)]_vars
    /\ []((obs.pp.vb /\ InVblankSpan) =>
            (TestBit(ppu.PPUSTATUS, 7) /\ ppu.nmi_occurred))
    /\ [][TickTo(261, 1) => Field(ppu'.PPUSTATUS, 5, 3) = 0]_vars
    /\ [][(IsPpuTick /\ \E b \in 5..7 :
                TestBit(ppu.PPUSTATUS, b) /\ ~TestBit(ppu'.PPUSTATUS, b))
            => TickTo(261, 1)]_vars

\* C19: the PPU write toggle.  Every write to $2005 or $2006 flips the
\* toggle; a read of $2002 clears it, returns the status as it was and
\* clears bit 7 of the status only; no other register access changes the
\* toggle.  A $2006 write made with the toggle set loads v from t; apart
\* from the address increment of a $2007 access nothing else changes v (so
\* a $2006 write with the toggle clear and every $2005 and $2000 write leave
\* v unchanged).
IsRegAccess == obs'.pr.n = obs.pr.n + 1

C19_WriteToggle ==
    [][IsRegAccess =>
        LET isw == obs'.pr.wr
            r == obs'.pr.reg
            flips == isw /\ r \in {5, 6}
            clears == ~isw /\ r = 2
            loads == isw /\ r = 6 /\ ppu.addrLatch
        IN  /\ flips => ppu'.addrLatch = ~ppu.addrLatch
            /\ clears => /\ ~ppu'.addrLatch
                         /\ obs'.pr.val = ppu.PPUSTATUS
                         /\ ppu'.PPUSTATUS = ClrBit(ppu.PPUSTATUS, 7)
            /\ ~(flips \/ clears) => ppu'.addrLatch = ppu.addrLatch
            /\ loads => ppu'.v = ppu'.t
            /\ (~loads /\ r # 7) => ppu'.v = ppu.v
            /\ r = 7 => ppu'.v = (ppu.v + incrementVRAMAddr(ppu)) % 32768]_vars

\* A read of $2002 has just cleared a set toggle and the vertical blank
\* flag, and left the sprite-0-hit or overflow bits and v as they were.
C19_Witness ==
    /\ obs.pr.n = 4
    /\ ~obs.pr.wr /\ obs.pr.reg = 2
    /\ obs.pr.val = 128
    /\ ppu.PPUSTATUS = 0
    /\ ~ppu.addrLatch
    /\ ppu.t # ppu.v
    /\ ppu.v = 8580

\* C20: in a PPUDATA round trip at an address of $2000-$3EFF the first read
\* of $2007 returns the buffer as it was, the second read returns the byte
\* written, and each of the three $2007 accesses advances v by the VRAM
\* increment (1 or 32) modulo $8000.
IsDataAccess == obs'.pd.pc = obs.pd.pc + 1 /\ obs'.pd.pc \in {3, 6, 7}

DataAddress == obs.pd.hi * 256 + obs.pd.lo

DataAdvance ==
    /\ [][IsDataAccess =>
            /\ incrementVRAMAddr(ppu) \in {1, 32}
            /\ ppu'.v = (ppu.v + incrementVRAMAddr(ppu)) % 32768]_vars
    /\ [](obs.pd.pc \in {2, 5} => ppu.v = DataAddress /\ ~ppu.addrLatch)

C20_RoundTrip ==
    /\ [](obs.pd.pc = 7 => obs.pd.r2 = obs.pd.x /\ obs.pd.r1 = obs.pd.stale)
    /\ DataAdvance

\* C20 as the code has it: the second read returns the byte written when
\* it is made with v below $3F00, that is when the address plus the
\* increment is below $3F00; made with v at $3F00 or above it returns the
\* palette entry at v, 6 bits wide.  The first read returns the buffer as
\* it was, and each $2007 access advances v by 1 or 32 modulo $8000.
C20_RoundTripBelowPalette ==
    /\ [](obs.pd.pc = 7 =>
            LET second == DataAddress + incrementVRAMAddr(ppu) IN
            /\ obs.pd.r1 = obs.pd.stale
            /\ second < 16128 => obs.pd.r2 = obs.pd.x
            /\ second >= 16128 =>
                   obs.pd.r2 = CellRead(ppu.palette, PaletteCell(second)) % 64)
    /\ DataAdvance

\* A round trip at $3E00 (a mirror of $2E00) with the increment 32 has
\* returned the stale $AA and then the $3F written.
C20_Witness ==
    /\ obs.pd.pc = 7
    /\ obs.pd.hi = 62 /\ obs.pd.lo = 0
    /\ obs.pd.x = 63
    /\ obs.pd.stale = 170
    /\ obs.pd.r1 = 170 /\ obs.pd.r2 = 63
    /\ TestBit(ppu.PPUCTRL, 2)
    /\ ppu.v = 15872 + 64

\* C21: a read of $2007 made with v in $3F00-$3FFF returns the palette
\* entry at v at once, and leaves in the read buffer the nametable byte
\* underneath the palette, the byte at v - $1000 after mirroring.
IsPaletteRead ==
    /\ obs'.pd.pc = obs.pd.pc + 1
    /\ obs'.pd.pc \in {6, 7}
    /\ ppu.v % 16384 >= 16128

C21_PaletteRead ==
    [][IsPaletteRead =>
        /\ (IF obs'.pd.pc = 6 THEN obs'.pd.r1 ELSE obs'.pd.r2)
              = CellRead(ppu.palette, PaletteCell(ppu.v % 16384)) % 64
        /\ ppu'.vramReadBuffer
              = CellRead(ppu.vram, mapNT((ppu.v % 16384) - 4096, mapper.mir))]_vars


(***************************************************************************)
(* Sprites of one scanline: evaluation at dot 65, rendering at dot 257,    *)
(* sprite-0 hit at the end of the line.                                    *)
(***************************************************************************)
MaxSpriteTicks == 88

\* OAM after a DMA of a page of $FF with the sprites of S set to one entry.
SpriteOAM(S, y, tile, attr, x) ==
    [j \in 1..256 |-> IF (j - 1) \div 4 \in S
                      THEN <<y, tile, attr, x>>[((j - 1) % 4) + 1]
                      ELSE 255]

\* The Y that puts row r of a sprite on line L (off screen if there is none).
SpriteY(L, r) == IF L - 1 - r >= 0 THEN L - 1 - r ELSE 255

\* What the ticks of dots 1-256 leave in lineBGPix: a blank background, or
\* a background of solid tiles behind the mask bits.
BgLine(mask, solid) ==
    [x \in {x \in 0..255 : solid /\ TestBit(mask, 3) /\ (TestBit(mask, 1) \/ x >= 8)}
        |-> 3]

SpriteLines == {0, 9, 20, 239}
SpriteRows == {0, 7, 8, 15}
SpriteSets == {{}, {0}, {63}, 0..6, 0..7, 56..63, 1..8, 0..8, 0..63}
HitSets == {{0}, {1}, {63}, 0..8}
HitRows == {0, 7, 8}
HitMasks == {30, 24, 8, 16}
HitTiles == {1, 3}
HitAttrs == {0, 64}
HitXs == {0, 252}

\* Just before the evaluation of line L.
EvalSnap(L, ctrl, st, o) ==
    [ppu |-> [NewPPU EXCEPT !.scanline = L, !.dot = SpriteEvalDot - 1,
                            !.PPUCTRL = ctrl, !.PPUMASK = 30, !.PPUSTATUS = st],
     oam |-> o]

\* Line 20 at dot 257: evaluated, the background composed, not yet rendered.
HitSnap(ctrl, mask, solid, o) ==
    [ppu |-> [evaluateSpritesWindow([NewPPU EXCEPT !.scanline = 20, !.PPUCTRL = ctrl,
                                                   !.PPUMASK = mask], o)
              EXCEPT !.dot = SpriteRenderDot, !.lineBGPix = BgLine(mask, solid)],
     oam |-> o]

SpriteSnaps ==
    {EvalSnap(L, ctrl, st, SpriteOAM(S, SpriteY(L, r), 1, 0, 0)) :
        L \in SpriteLines, ctrl \in {0, 32}, st \in {0, 32}, S \in SpriteSets,
        r \in SpriteRows}
    \cup
    {HitSnap(c[1], c[2], c[3], SpriteOAM(c[4], SpriteY(20, c[5]), c[6], c[7], c[8])) :
        c \in {0, 32} \X HitMasks \X BOOLEAN \X HitSets \X HitRows \X HitTiles
               \X HitAttrs \X HitXs}

InitSprites ==
    /\ prg = CpuVectors
    /\ \E s \in SpriteSnaps :
          LET m == powerOn(<<>>, NewMapper("NROM"))
          IN  /\ cpu = m.cpu
              /\ sysRAM = m.ram
              /\ ppu = s.ppu
              /\ oam = s.oam
              /\ apu = m.apu
              /\ mapper = m.map
              /\ obs = NewObs
    /\ nes = NewNES

SpriteTick ==
    /\ obs.pp.ticks < MaxSpriteTicks
    /\ ppu' = tick(ppu, oam, mapper.mir)
    /\ mapper' = tickMapper(ppu, mapper)
    /\ obs' = [obs EXCEPT !.pp.ticks = @ + 1]
    /\ UNCHANGED <<cpu, sysRAM, oam, apu, prg, nes>>

NextSprites == SpriteTick

SpecSprites == InitSprites /\ [][NextSprites]_vars

\* The tick that evaluates the sprites of a visible line.
IsEvalTick ==
    /\ IsPpuTick
    /\ ppu.scanline >= 0 /\ ppu.scanline < HEIGHT
    /\ ppu.dot = SpriteEvalDot

InRange == {i \in 0..63 : SpriteInRange(oam, i, ppu.scanline, SpriteHeight(ppu))}

\* C22: after the evaluation at dot 65 of a visible line, PPUSTATUS bit 5 is
\* set if and only if more than 8 sprites of the primary OAM are in range
\* (with 8 or fewer it is clear), and between 0 and 8 entries are copied to
\* the secondary OAM.
C22_SpriteOverflow ==
    [][IsEvalTick =>
        /\ TestBit(ppu'.PPUSTATUS, 5) <=> Cardinality(InRange) > 8
        /\ ppu'.secCount >= 0 /\ ppu'.secCount <= 8]_vars

\* The tick that ends a line and sets the sprite-0 hit.
IsHitSet ==
    /\ IsPpuTick
    /\ ~TestBit(ppu.PPUSTATUS, 6)
    /\ TestBit(ppu'.PPUSTATUS, 6)

\* The pixels of the sprite stored at OAM index 0 on the current line.
Sprite0Pixels ==
    IF SpriteInRange(oam, 0, ppu.scanline, SpriteHeight(ppu))
    THEN SlotPixels(ppu, SecEntry(oam, 0))
    ELSE <<>>

\* C23: bit 6 of PPUSTATUS is set on a line only if the sprite at OAM index
\* 0 is in range and one of its non-transparent pixels lies on a
\* non-transparent background pixel, both layers shown and not masked in
\* the left 8 columns; a sprite at another index never sets it.
C23_Sprite0Hit ==
    [][IsHitSet =>
        /\ TestBit(ppu.PPUMASK, 3) /\ TestBit(ppu.PPUMASK, 4)
        /\ \E x \in DOMAIN Sprite0Pixels :
              /\ CellRead(ppu.lineBGPix, x) # 0
              /\ x >= 8 \/ (TestBit(ppu.PPUMASK, 1) /\ TestBit(ppu.PPUMASK, 2))]_vars


\* The step that powers the console on again (NES::powerOn after a run).
IsPowerOn == nes.pc = "idle" /\ obs.steps > 0 /\ obs'.steps = 0

\* C29: immediately after every NES::powerOn, a second one in the same
\* process included, every CPU address $0000-$1FFF reads 0.
C29_RamZeroedAtPowerOn ==
    [][IsPowerOn => \A a \in 0..8191 : RamRead(sysRAM', a) = 0]_vars


(***************************************************************************)
(* The APU frame sequencer: CPU-cycle ticks from power-on, and one write   *)
(* of $4017 or $4015 at one of a few moments of the sequence.              *)
(***************************************************************************)
MaxSeqTicks == 18650
MaxSeqWrites == 1

SeqWriteTimes == {0, 3730, 14914}
SeqWrites == ({16407} \X {0, 64, 128, 192}) \cup ({16405} \X {0, 31})

InitApu ==
    /\ prg = CpuVectors
    /\ LET m == powerOn(<<>>, NewMapper("NROM"))
       IN  /\ cpu = m.cpu
           /\ sysRAM = m.ram
           /\ ppu = m.ppu
           /\ oam = m.oam
           /\ apu = ChannelAPU
           /\ mapper = m.map
    /\ nes = NewNES
    /\ obs = NewObs

\* apu->tickCPU()
SeqTick ==
    /\ obs.ap.since < MaxSeqTicks
    /\ apu' = tickCPU(apu)
    /\ obs' = [obs EXCEPT !.ap.ticks = @ + 1, !.ap.since = @ + 1, !.ap.op = "tick"]
    /\ UNCHANGED <<cpu, sysRAM, ppu, oam, mapper, prg, nes>>

\* The CPU writes an APU register.
ApuRegWrite(r, v) ==
    /\ SetM(cpuWrite(M, r, v))
    /\ obs' = [obs EXCEPT !.ap.ops = @ + 1, !.ap.op = "write", !.ap.reg = r,
                          !.ap.val = v,
                          !.ap.since = IF r = 16407 THEN 0 ELSE @]
    /\ UNCHANGED <<prg, nes>>

SeqWrite ==
    /\ obs.ap.ops < MaxSeqWrites
    /\ obs.ap.ticks \in SeqWriteTimes
    /\ \E w \in SeqWrites : ApuRegWrite(w[1], w[2])

NextApuSeq == SeqTick \/ SeqWrite

SpecApuSeq == InitApu /\ [][NextApuSeq]_vars

IsApuTick == obs'.ap.ticks = obs.ap.ticks + 1

\* The place of the tick being taken in the period of the sequence.
SeqPos(period) == (obs.ap.since % period) + 1

\* C24: in 4-step mode, counting the ticks from the last reset of the
\* sequencer, every period of 14915 ticks has a quarter-frame clock on
\* exactly the ticks 3730, 7458, 11187 and 14915 and a half-frame clock on
\* exactly the ticks 7458 and 14915; tick 14915 sets frameIRQ if and only if
\* the inhibit flag is clear and restarts the sequence from cycle 0.
C24_FourStep ==
    [][IsApuTick /\ ~apu.mode5 =>
        /\ apu'.quarters - apu.quarters
              = IF SeqPos(14915) \in {3730, 7458, 11187, 14915} THEN 1 ELSE 0
        /\ apu'.halves - apu.halves
              = IF SeqPos(14915) \in {7458, 14915} THEN 1 ELSE 0
        /\ IF SeqPos(14915) = 14915
           THEN /\ apu'.frameIRQ <=> ~apu.irqInhibit
                /\ apu'.fcCycle2 = 0 /\ apu'.fcStep = 0
           ELSE /\ apu'.frameIRQ = apu.frameIRQ
                /\ apu'.fcCycle2 = 2 * SeqPos(14915)]_vars

C24_Witness ==
    /\ obs.ap.ops = 0 /\ obs.ap.since = 14915
    /\ ~apu.mode5 /\ apu.frameIRQ
    /\ apu.quarters = 4 /\ apu.halves = 2
    /\ apu.fcCycle2 = 0 /\ apu.fcStep = 0

\* C25: in 5-step mode every period of 18641 cycles has five quarter-frame
\* clocks (at 3729.5, 7457.5, 11186.5, 14915.5 and 18641) and two
\* half-frame clocks (at 7457.5 and 14915.5), never sets frameIRQ, and
\* wraps at 18641.
C25_FiveStep ==
    [][IsApuTick /\ apu.mode5 =>
        /\ apu'.quarters - apu.quarters
              = IF SeqPos(18641) \in {3730, 7458, 11187, 14916, 18641} THEN 1 ELSE 0
        /\ apu'.halves - apu.halves
              = IF SeqPos(18641) \in {7458, 14916} THEN 1 ELSE 0
        /\ ~apu'.frameIRQ
        /\ apu'.fcCycle2 = IF SeqPos(18641) = 18641 THEN 0 ELSE 2 * SeqPos(18641)]_vars

IsApuWrite(r) == obs'.ap.ops = obs.ap.ops + 1 /\ obs'.ap.op = "write" /\ obs'.ap.reg = r

\* C26: a write to $4017 resets the cycle and the step of the sequencer to
\* 0 and sets the mode from bit 7 and the inhibit flag from bit 6; with bit
\* 7 set it issues exactly one quarter-frame and one half-frame clock at
\* once, with bit 7 clear none.  A write to $4015 leaves mode, cycle, step
\* and inhibit flag unchanged.
C26_SequencerWrite ==
    [][/\ IsApuWrite(16407) =>
            /\ apu'.fcCycle2 = 0 /\ apu'.fcStep = 0
            /\ apu'.mode5 = TestBit(obs'.ap.val, 7)
            /\ apu'.irqInhibit = TestBit(obs'.ap.val, 6)
            /\ apu'.quarters - apu.quarters = IF TestBit(obs'.ap.val, 7) THEN 1 ELSE 0
            /\ apu'.halves - apu.halves = IF TestBit(obs'.ap.val, 7) THEN 1 ELSE 0
       /\ IsApuWrite(16405) =>
            /\ apu'.mode5 = apu.mode5 /\ apu'.irqInhibit = apu.irqInhibit
            /\ apu'.fcCycle2 = apu.fcCycle2 /\ apu'.fcStep = apu.fcStep
            /\ apu'.quarters = apu.quarters /\ apu'.halves = apu.halves]_vars

C26_Witness ==
    /\ obs.ap.op = "write" /\ obs.ap.reg = 16407 /\ obs.ap.val = 192
    /\ obs.ap.ticks = 3730
    /\ apu.mode5 /\ apu.irqInhibit
    /\ apu.quarters = 2 /\ apu.halves = 1
    /\ apu.fcCycle2 = 0 /\ apu.fcStep = 0

(***************************************************************************)
(* The DMC: the registers $4010, $4012, $4013 are written at power-on, the  *)
(* sample is started by $4015 = $10 some ticks later, and $4015 is read at *)
(* most once; the APU is ticked until the sample has long completed.       *)
(***************************************************************************)
MaxDmcTicks == 9000
MaxDmcTail == 1000

\* The sample bytes: $FF at $C000.., $00 at $C040, $55 at $C041...
DmcImage == [a \in 49216..49232 |-> IF a = 49216 THEN 0 ELSE 85] @@ CpuVectors

DmcRead(t) == <<t, "read", 16405, 0>>
DmcScript(mode, adr, len, start) ==
    << <<0, "write", 16400, mode>>, <<0, "write", 16402, adr>>,
       <<0, "write", 16403, len>>, <<start, "write", 16405, 16>> >>

DmcModes == {15, 143, 207}
DmcStarts == {0, 440}
DmcShort ==
    { DmcScript(md, adr, 0, st) \o rds :
        md \in DmcModes, adr \in {0, 1}, st \in DmcStarts,
        rds \in {<<>>, <<DmcRead(600)>>, <<DmcRead(1400)>>} }
DmcLong ==
    { DmcScript(143, adr, 1, 0) \o rds :
        adr \in {0, 1}, rds \in {<<>>, <<DmcRead(8200)>>} }
DmcScripts == DmcShort \cup DmcLong

InitDmc ==
    /\ prg = DmcImage
    /\ LET m == powerOn(<<>>, NewMapper("NROM"))
       IN  /\ cpu = m.cpu
           /\ sysRAM = m.ram
           /\ ppu = m.ppu
           /\ oam = m.oam
           /\ apu = ChannelAPU
           /\ mapper = m.map
    /\ nes = NewNES
    /\ \E sc \in DmcScripts : obs = [NewObs EXCEPT !.ap.script = sc]

\* The DMC is playing: bytes are left, or the last byte is being shifted out.
DmcPlaying(a) == a.dmc.enabled /\ (a.dmc.bytesLeft > 0 \/ ~a.dmc.silence)

\* Every byte of the sample has been fetched once, and the channel is
\* silent again or is looping.
PlayedOnce(a) ==
    /\ a.dmc.enabled /\ a.fetches >= a.dmc.length
    /\ a.dmc.silence \/ TestBit(a.dmc.reg0, 6)

AccessDue == obs.ap.script # <<>> /\ Head(obs.ap.script)[1] <= obs.ap.ticks

\* apu->tickCPU(), until the sample has been played for MaxDmcTail ticks
DmcTick ==
    /\ ~AccessDue
    /\ obs.ap.ticks < MaxDmcTicks
    /\ obs.ap.since < MaxDmcTail
    /\ apu' = tickCPU(apu)
    /\ obs' = [obs EXCEPT !.ap.ticks = @ + 1, !.ap.op = "tick",
                          !.ap.since = IF PlayedOnce(apu) THEN @ + 1 ELSE 0]
    /\ UNCHANGED <<cpu, sysRAM, ppu, oam, mapper, prg, nes>>

\* The CPU reads $4015.
ApuStatusRead(r) ==
    /\ SetM(r.m)
    /\ obs' = [obs EXCEPT !.ap.ops = @ + 1, !.ap.op = "read", !.ap.reg = 16405,
                          !.ap.val = r.val, !.ap.script = Tail(@)]
    /\ UNCHANGED <<prg, nes>>

ScriptRead ==
    /\ AccessDue
    /\ Head(obs.ap.script)[2] = "read"
    /\ ApuStatusRead(cpuRead(M, 16405))

ScriptWrite ==
    /\ AccessDue
    /\ Head(obs.ap.script)[2] = "write"
    /\ SetM(cpuWrite(M, Head(obs.ap.script)[3], Head(obs.ap.script)[4]))
    /\ obs' = [obs EXCEPT !.ap.ops = @ + 1, !.ap.op = "write",
                          !.ap.reg = Head(obs.ap.script)[3],
                          !.ap.val = Head(obs.ap.script)[4],
                          !.ap.script = Tail(@)]
    /\ UNCHANGED <<prg, nes>>

NextDmc == DmcTick \/ ScriptRead \/ ScriptWrite

SpecDmc == InitDmc /\ [][NextDmc]_vars

\* NES::runFrame ticks the APU on every CPU cycle, and the program goes on
\* with its accesses.
SpecDmcFair == SpecDmc /\ WF_vars(NextDmc)

LoopOff == ~TestBit(apu.dmc.reg0, 6)
IrqOn == TestBit(apu.dmc.reg0, 7)
DmcOver == apu.dmc.enabled /\ apu.dmc.bytesLeft = 0 /\ apu.dmc.silence

\* C27: a sample started with the loop bit clear, and no later write of
\* $4010-$4015: once its last byte is shifted out the channel is silent
\* (the output level stays, no memory fetch, bytes-left stays 0); with the
\* IRQ enable bit set, the end of the sample sets dmcIRQ, and dmcIRQ and
\* the IRQ line stay asserted over every tick (until $4015 is read).
C27_DmcCompletion ==
    /\ [][IsApuTick =>
            /\ LoopOff /\ DmcOver =>
                  /\ apu'.dmc.silence /\ apu'.dmc.bytesLeft = 0
                  /\ apu'.dmc.output = apu.dmc.output
                  /\ apu'.fetches = apu.fetches
            /\ LoopOff /\ IrqOn /\ DmcPlaying(apu) /\ ~DmcPlaying(apu') => apu'.dmcIRQ
            /\ apu.dmcIRQ => apu'.dmcIRQ /\ irqLine(apu')]_vars
    /\ (LoopOff /\ DmcPlaying(apu))
          ~> (DmcOver /\ (IrqOn => apu.dmcIRQ /\ irqLine(apu)))

C27_Witness ==
    /\ LoopOff /\ IrqOn /\ DmcOver
    /\ apu.fetches = 17 /\ apu.dmc.curAddr = 49233
    /\ obs.ap.since = 100
    /\ apu.dmcIRQ /\ irqLine(apu)

(***************************************************************************)
(* Controller 1 (input.h, input.cpp) behind $4016 of the bus.  The Input   *)
(* object is a field of the console record here; the console               *)
(* specifications above run programs that never access $4016 and leave it  *)
(* out.                                                                    *)
(***************************************************************************)
NewInput == [shift1 |-> 0, strobe |-> 0, padState |-> 0]

\* Input::setStrobe
setStrobe(inp, v) ==
    IF v % 2 = 1 THEN [inp EXCEPT !.strobe = 1, !.shift1 = inp.padState]
    ELSE [inp EXCEPT !.strobe = 0]

\* A shift that fills with zeros.
ShiftOutZeros(b) == b \div 2

\* (uint8_t)((shift1 >> 1) | 0x80)
ShiftOut(b) == (b \div 2) + 128

\* Input::read4016
read4016(inp) ==
    [val |-> (inp.shift1 % 2) + 64,
     inp |-> IF inp.strobe = 0 THEN [inp EXCEPT !.shift1 = ShiftOut(@)] ELSE inp]

\* Input::poll, with the buttons held as the mask bits (A, B, Select,
\* Start, Up, Down, Left, Right in bits 0..7)
poll(inp, bits) ==
    [inp EXCEPT !.padState = bits,
                !.shift1 = IF inp.strobe # 0 THEN bits ELSE @]

MaxPadOps == 14
PadMasks == {0, 1, 90, 165, 254}
StrobeValues == {0, 1, 2, 3}

NewPadObs == [ops |-> 0, op |-> "none", val |-> 0, armed |-> FALSE, latched |-> 0,
              reads |-> 0]

InitInput ==
    /\ prg = CpuVectors
    /\ LET m == powerOn(<<>>, NewMapper("NROM"))
       IN  /\ cpu = m.cpu
           /\ sysRAM = m.ram
           /\ ppu = m.ppu
           /\ oam = m.oam
           /\ apu = m.apu
           /\ mapper = m.map
    /\ nes = [input |-> NewInput] @@ NewNES
    /\ obs = [pad |-> NewPadObs] @@ NewObs

\* NES::runFrame: input->poll()
PadPoll ==
    /\ obs.pad.ops < MaxPadOps
    /\ \E bits \in PadMasks : nes' = [nes EXCEPT !.input = poll(@, bits)]
    /\ obs' = [obs EXCEPT !.pad.ops = @ + 1, !.pad.op = "poll"]
    /\ UNCHANGED <<cpu, sysRAM, ppu, oam, apu, mapper, prg>>

\* Bus::cpuWrite of $4016.  The observer notes the mask latched when the
\* strobe falls and counts the reads from there; a strobe write of 1 ends
\* the count.
PadWritten(v) ==
    /\ nes' = [nes EXCEPT !.input = setStrobe(@, v)]
    /\ obs' = [obs EXCEPT !.pad.ops = @ + 1, !.pad.op = "write", !.pad.val = v,
                          !.pad.armed = IF v % 2 = 1 THEN FALSE
                                        ELSE IF nes.input.strobe = 1 THEN TRUE ELSE @,
                          !.pad.latched = IF v % 2 = 0 /\ nes.input.strobe = 1
                                          THEN nes.input.padState ELSE @,
                          !.pad.reads = IF v % 2 = 0 /\ nes.input.strobe = 1
                                        THEN 0 ELSE @]
    /\ UNCHANGED <<cpu, sysRAM, ppu, oam, apu, mapper, prg>>

PadWrite ==
    /\ obs.pad.ops < MaxPadOps
    /\ \E v \in StrobeValues : PadWritten(v)

\* Bus::cpuRead of $4016
PadReadDone(r) ==
    /\ nes' = [nes EXCEPT !.input = r.inp]
    /\ obs' = [obs EXCEPT !.pad.ops = @ + 1, !.pad.op = "read", !.pad.val = r.val,
                          !.pad.reads = @ + 1]
    /\ UNCHANGED <<cpu, sysRAM, ppu, oam, apu, mapper, prg>>

PadRead ==
    /\ obs.pad.ops < MaxPadOps
    /\ PadReadDone(read4016(nes.input))

NextInput == PadPoll \/ PadWrite \/ PadRead

SpecInput == InitInput /\ [][NextInput]_vars

IsPadRead == obs'.pad.ops = obs.pad.ops + 1 /\ obs'.pad.op = "read"

\* C28: after a strobe write of 1 and then of 0, read k of $4016 (k = 1..8)
\* returns in bit 0 button k (A, B, Select, Start, Up, Down, Left, Right) of
\* the mask latched while the strobe was high, and every later read
\* returns bit 0 = 1; every read is $40 or $41; while the strobe is 1 a
\* read returns the A button and does not shift the register.
C28_ControllerProtocol ==
    [][IsPadRead =>
        /\ obs'.pad.val \in {64, 65}
        /\ obs.pad.armed =>
              obs'.pad.val % 2 = IF obs.pad.reads < 8
                                  THEN BitAt(obs.pad.latched, obs.pad.reads)
                                  ELSE 1
        /\ nes.input.strobe = 1 =>
              /\ obs'.pad.val % 2 = nes.input.padState % 2
              /\ nes'.input.shift1 = nes.input.shift1]_vars

C28_Witness ==
    /\ obs.pad.armed /\ obs.pad.latched = 165 /\ obs.pad.reads = 9
    /\ obs.pad.op = "read" /\ obs.pad.val = 65
    /\ nes.input.padState = 90
    /\ nes.input.shift1 = 255

(***************************************************************************)
(* The APU registers: a channel is set up by writes at power-on, then the  *)
(* APU is ticked, and $4017 = $80 (a quarter- and a half-frame clock at    *)
(* once), $4015 = $00 and $4015 reads come at two moments in any order.    *)
(***************************************************************************)
MaxRegTicks == 48
MaxRegOps == 18

RegOpTimes == {8, 40}

\* The sample bytes: $FF at $C000.., $00 at $C040..$C050.
RegImage == [a \in 49216..49232 |-> 0] @@ CpuVectors

WritesAtPowerOn(ws) == [i \in 1..Len(ws) |-> <<0, "write", ws[i][1], ws[i][2]>>]

EnvelopeSetups ==
    { << <<16405, 15>>, <<16384, ev>>, <<16387, 8>>, <<16388, ev>>, <<16391, 8>>,
         <<16396, ev>>, <<16399, 8>> >> : ev \in {0, 3, 32, 255} }
SweepSetups ==
    { << <<16405, 3>>, <<16386, pr[1]>>, <<16387, pr[2]>>, <<16385, sw>>,
         <<16390, pr[1]>>, <<16391, pr[2]>>, <<16389, sw>> >> :
        pr \in { <<255, 255>>, <<0, 4>>, <<8, 0>> }, sw \in {129, 137, 255} }
TriangleSetups ==
    { << <<16405, 4>>, <<16392, lin>>, <<16394, 0>>, <<16395, 8>> >> :
        lin \in {1, 127, 255} }
SampleSetups ==
    { << <<16402, adr>>, <<16403, 1>>, <<16405, 16>> >> : adr \in {0, 1} }
RegSetups == EnvelopeSetups \cup SweepSetups \cup TriangleSetups \cup SampleSetups

RegOps == { <<"write", 16407, 128>>, <<"write", 16405, 0>>, <<"read", 16405, 0>> }

InitApuRegs ==
    /\ prg = RegImage
    /\ LET m == powerOn(<<>>, NewMapper("NROM"))
       IN  /\ cpu = m.cpu
           /\ sysRAM = m.ram
           /\ ppu = m.ppu
           /\ oam = m.oam
           /\ apu = ChannelAPU
           /\ mapper = m.map
    /\ nes = NewNES
    /\ \E ws \in RegSetups : obs = [NewObs EXCEPT !.ap.script = WritesAtPowerOn(ws)]

\* apu->tickCPU()
RegTick ==
    /\ ~AccessDue
    /\ obs.ap.ticks < MaxRegTicks
    /\ apu' = tickCPU(apu)
    /\ obs' = [obs EXCEPT !.ap.ticks = @ + 1, !.ap.op = "tick"]
    /\ UNCHANGED <<cpu, sysRAM, ppu, oam, mapper, prg, nes>>

\* An access the program makes after the setup.
RegOp ==
    /\ obs.ap.script = <<>>
    /\ obs.ap.ticks \in RegOpTimes
    /\ obs.ap.since < MaxRegOps
    /\ \E op \in RegOps :
          /\ SetM(IF op[1] = "read" THEN cpuRead(M, op[2]).m
                                    ELSE cpuWrite(M, op[2], op[3]))
          /\ obs' = [obs EXCEPT !.ap.ops = @ + 1, !.ap.op = op[1], !.ap.reg = op[2],
                                !.ap.val = op[3], !.ap.since = @ + 1]
    /\ UNCHANGED <<prg, nes>>

NextApuRegs == RegTick \/ ScriptWrite \/ RegOp

SpecApuRegs == InitApuRegs /\ [][NextApuRegs]_vars

\* C30: in every state reached by APU register writes, $4015 reads and
\* ticks, the DMC output level is in 0..127, the envelope decay levels of
\* pulse 1, pulse 2 and noise are in 0..15, the triangle sequencer step is
\* in 0..31, the pulse sequencer steps are in 0..7 and the pulse periods
\* are in 0..$7FF.
C30_ApuRanges ==
    /\ apu.dmc.output \in 0..127
    /\ apu.pulse1.envVol \in 0..15
    /\ apu.pulse2.envVol \in 0..15
    /\ apu.noise.envVol \in 0..15
    /\ apu.tri.step \in 0..31
    /\ apu.pulse1.seqIndex \in 0..7
    /\ apu.pulse2.seqIndex \in 0..7
    /\ apu.pulse1.period \in 0..2047
    /\ apu.pulse2.period \in 0..2047

\* The fifth byte of $FF is being shifted out: the output level has
\* reached 126 and stays there.
C30_Witness ==
    /\ apu.dmc.output = 126 /\ ~apu.dmc.silence
    /\ apu.fetches = 5 /\ apu.dmc.shift = 15
    /\ obs.ap.op = "tick"


(***************************************************************************)
(* The PPU rendering on an MMC3 cartridge: PPU::tick with its background   *)
(* fetches, scroll updates and mapper hooks, and the CPU accesses of a     *)
(* script to the PPU and mapper registers, made between two ticks.  The    *)
(* run starts at dot 0 of a scanline that the PPU has reached from         *)
(* power-on with rendering disabled.                                       *)
(***************************************************************************)
MaxRenderTicks == 1100

\* The mapper after more than A12LowCap ticks with rendering disabled.
IdleMapper == [NewMapper("MMC3") EXCEPT !.a12LowCycles = A12LowCap]

\* Power-on (the pre-render line), scanline 238 of the first frame, and
\* scanline 260 of its vertical blank.
RenderStarts ==
    {[ppu |-> NewPPU, map |-> NewMapper("MMC3")],
     [ppu |-> PpuSnap(238, 0, 0, 0, 0, TRUE, 255).ppu, map |-> IdleMapper],
     [ppu |-> PpuSnap(260, 0, 0, 0, 128, TRUE, 255).ppu, map |-> IdleMapper]}

WritesAt(t, ws) == [i \in 1..Len(ws) |-> <<t, "write", ws[i][1], ws[i][2]>>]

\* IRQ latch 3, reload, IRQ enable.
IrqSetup == WritesAt(0, <<<<49152, 3>>, <<49153, 0>>, <<57345, 0>>>>)

RenderMode(ctrl, mask) == WritesAt(0, <<<<8192, ctrl>>, <<8193, mask>>>>)

\* Either background table, rendering off, background, sprites or both.
ModeScripts == {IrqSetup \o RenderMode(c, k) : c \in {0, 16}, k \in {0, 8, 16, 24}}

\* Sprite 0 = (Y, tile 1, attribute 0, X 0) on the lines that follow the
\* start, the sprite table at $0000 or $1000, 8x8 sprites.
SpriteScripts ==
    {IrqSetup \o WritesAt(0, <<<<8195, 0>>, <<8196, y>>, <<8196, 1>>, <<8196, 0>>,
                               <<8196, 0>>>>) \o RenderMode(c, 24) :
        y \in {0, 237}, c \in {0, 8}}

\* The background table changed once, 100 or 500 ticks after the start.
SwitchScripts ==
    {IrqSetup \o RenderMode(c, 8) \o WritesAt(t, <<<<8192, 16 - c>>>>) :
        c \in {0, 16}, t \in {100, 500}}

\* t = $7FFF with the address increment 32, or v = t = $3FFF with the
\* increment 1; then two accesses at dot 300 of the first line.
ScrollSetups ==
    {WritesAt(0, <<<<8197, 255>>, <<8197, 255>>, <<8192, 7>>, <<8193, 24>>>>),
     WritesAt(0, <<<<8198, 255>>, <<8198, 255>>, <<8192, 3>>, <<8193, 24>>>>)}

ScrollOps ==
    {<<300, "write", 8192, 3>>, <<300, "write", 8197, 255>>, <<300, "write", 8198, 255>>,
     <<300, "write", 8199, 0>>, <<300, "read", 8199, 0>>, <<300, "read", 8194, 0>>}

ScrollScripts ==
    {IrqSetup \o su \o <<a, b>> : su \in ScrollSetups, a \in ScrollOps, b \in ScrollOps}

RenderScripts == ModeScripts \cup SpriteScripts \cup SwitchScripts \cup ScrollScripts

\* What an observer of the rendering has counted: the clocks of the IRQ
\* counter on the current scanline, and whether PPUCTRL and PPUMASK have
\* been left alone since the frame started at (0,0) with rendering enabled.
NewRenderObs == [clocks |-> 0, held |-> FALSE]

InitRender ==
    /\ prg = CpuVectors
    /\ \E s \in RenderStarts :
          LET m == powerOn(<<>>, s.map)
          IN  /\ cpu = m.cpu
              /\ sysRAM = m.ram
              /\ ppu = s.ppu
              /\ oam = m.oam
              /\ apu = m.apu
              /\ mapper = m.map
    /\ nes = NewNES
    /\ \E sc \in RenderScripts :
          obs = [rd |-> NewRenderObs] @@ [NewObs EXCEPT !.ap.script = sc]

\* A clock of the MMC3 IRQ counter: with a latch of 3 every clock changes
\* the counter (0 -> 3 -> 2 -> 1 -> 0).
Clocked(mp, mq) == mq.irqCounter # mp.irqCounter \/ mq.irqReload # mp.irqReload

ClocksOf(mp, mq) == IF Clocked(mp, mq) THEN 1 ELSE 0

\* ppu->tick()
RenderTick ==
    /\ ~AccessDue
    /\ obs.ap.ticks < MaxRenderTicks
    /\ ppu' = tick(ppu, oam, mapper.mir)
    /\ mapper' = tickMapper(ppu, mapper)
    /\ obs' = [obs EXCEPT
          !.ap.ticks = @ + 1, !.ap.op = "tick",
          !.rd.clocks = IF ppu'.dot = 0 THEN 0 ELSE @ + ClocksOf(mapper, mapper'),
          !.rd.held = IF ppu'.scanline = 0 /\ ppu'.dot = 0
                      THEN renderingEnabled(ppu') ELSE @]
    /\ UNCHANGED <<cpu, sysRAM, oam, apu, prg, nes>>

\* bus.cpuWrite(a, v) of the script
RenderWrite ==
    /\ AccessDue
    /\ Head(obs.ap.script)[2] = "write"
    /\ SetM(cpuWrite(M, Head(obs.ap.script)[3], Head(obs.ap.script)[4]))
    /\ obs' = [obs EXCEPT !.ap.ops = @ + 1, !.ap.op = "write",
                          !.ap.reg = Head(obs.ap.script)[3],
                          !.ap.val = Head(obs.ap.script)[4],
                          !.ap.script = Tail(@),
                          !.rd.held = @ /\ ppu'.PPUCTRL = ppu.PPUCTRL
                                        /\ ppu'.PPUMASK = ppu.PPUMASK]
    /\ UNCHANGED <<prg, nes>>

\* bus.cpuRead(a) of the script
RenderRead ==
    /\ AccessDue
    /\ Head(obs.ap.script)[2] = "read"
    /\ LET r == cpuRead(M, Head(obs.ap.script)[3]) IN
          /\ SetM(r.m)
          /\ obs' = [obs EXCEPT !.ap.ops = @ + 1, !.ap.op = "read",
                                !.ap.reg = Head(obs.ap.script)[3],
                                !.ap.val = r.val,
                                !.ap.script = Tail(@)]
    /\ UNCHANGED <<prg, nes>>

NextRender == RenderTick \/ RenderWrite \/ RenderRead

SpecRender == InitRender /\ [][NextRender]_vars

IsRenderTick == obs'.ap.op = "tick" /\ obs'.ap.ticks = obs.ap.ticks + 1

IsRenderAccess == obs'.ap.ops = obs.ap.ops + 1

\* C31: in every reachable state v <= $7FFF and t <= $7FFF, whatever
\* accesses to $2000/$2005/$2006/$2007 and ticks have been made; the tick
\* of dot 257 with rendering enabled (the horizontal copy) changes only
\* the bits $041F of v, to those of t, and a tick of dots 280-304 of the
\* pre-render line (the vertical copy) changes only the bits $7BE0 of v,
\* to those of t.
C31_ScrollRange ==
    /\ [](ppu.v <= 32767 /\ ppu.t <= 32767)
    /\ [][IsRenderTick /\ renderingEnabled(ppu) /\ ppu.dot = 257
            => /\ ppu'.v - HorizontalBits(ppu'.v) = ppu.v - HorizontalBits(ppu.v)
               /\ HorizontalBits(ppu'.v) = HorizontalBits(ppu.t)
               /\ ppu'.t = ppu.t]_vars
    /\ [][IsRenderTick /\ renderingEnabled(ppu) /\ ppu.scanline = LastScanline
                       /\ ppu.dot >= 280 /\ ppu.dot <= 304
            => /\ HorizontalBits(ppu'.v) = HorizontalBits(ppu.v)
               /\ ppu'.v - HorizontalBits(ppu'.v) = ppu.t - HorizontalBits(ppu.t)
               /\ ppu'.t = ppu.t]_vars

\* Both copies have brought v to $7FFF from t = $7FFF.
C31_Witness ==
    /\ ppu.v = 32767 /\ ppu.t = 32767
    /\ ppu.scanline = LastScanline /\ ppu.dot = 305

\* The addresses the background pipeline of PPU::tick reads at p: the
\* nametable byte, the attribute byte, the two pattern bytes.
BgFetches(p) ==
    IF ~fetchWindow(p) THEN {}
    ELSE IF p.dot % 8 = 1 THEN {8192 + (p.v % 4096)}
    ELSE IF p.dot % 8 = 3
    THEN {9152 + 1024 * Field(p.v, 10, 2) + 8 * Field(p.v, 7, 3) + Field(p.v, 2, 3)}
    ELSE IF p.dot % 8 = 5 THEN {PatternAddr(p, 0)}
    ELSE IF p.dot % 8 = 7 THEN {PatternAddr(p, 1)}
    ELSE {}

\* C32: a PPU tick made on scanlines 240-260, or with PPUMASK bits 3 and 4
\* both clear, leaves v unchanged and makes no background fetch: ticks
\* modify v only on the visible lines and the pre-render line, with
\* rendering enabled.
C32_TickScrollLines ==
    [][IsRenderTick /\ (~renderingEnabled(ppu)
                        \/ (ppu.scanline >= HEIGHT /\ ppu.scanline < LastScanline))
         => ppu'.v = ppu.v /\ BgFetches(ppu) = {}]_vars

\* The pattern-table addresses PPU::renderSpritesForLine reads at dot 257:
\* both planes of the row of every sprite of the secondary OAM.
SpriteFetches(p) ==
    IF p.scanline >= 0 /\ p.scanline < HEIGHT /\ p.dot = SpriteRenderDot
       /\ TestBit(p.PPUMASK, 4)
    THEN UNION {{RowBase(p, p.secOAM[s][2], p.scanline - (p.secOAM[s][1] + 1),
                         TestBit(p.secOAM[s][3], 7)) + k : k \in {0, 8}} :
                s \in {s \in 1..p.secCount :
                         /\ p.scanline - (p.secOAM[s][1] + 1) >= 0
                         /\ p.scanline - (p.secOAM[s][1] + 1) < SpriteHeight(p)}}
    ELSE {}

\* The pattern-table (CHR, below $2000) addresses one PPU::tick reads.
ChrFetches(p) == {a \in BgFetches(p) : a < 8192} \cup SpriteFetches(p)

\* C33: every PPU tick calls the A12 hook of the mapper exactly once, as
\* its last call, and passes true exactly when one of the pattern-table
\* fetches of the tick (background at dots 1-256, pre-fetches at 321-340,
\* sprites at dot 257) had address bit 12 set.
C33_A12Reporting ==
    [][IsRenderTick
         => LET cs == HookCalls(ppu) IN
            /\ Len(SelectSeq(cs, LAMBDA c : c.hook = "a12")) = 1
            /\ cs[Len(cs)].hook = "a12"
            /\ cs[Len(cs)].arg = (\E a \in ChrFetches(ppu) : TestBit(a, 12))]_vars

\* C39: a PPU tick made on scanlines 240-260 changes neither the IRQ
\* counter of the MMC3, its reload flag nor its IRQ flag, whatever PPUCTRL
\* and PPUMASK are.
C39_NoClockInVblank ==
    [][IsRenderTick /\ ppu.scanline >= HEIGHT /\ ppu.scanline < LastScanline
         => /\ mapper'.irqCounter = mapper.irqCounter
            /\ mapper'.irqReload = mapper.irqReload
            /\ mapper'.irqFlag = mapper.irqFlag]_vars

\* The tick of the last dot of a visible scanline, PPUCTRL and PPUMASK
\* unchanged since the frame began with rendering enabled.
EndsHeldLine ==
    /\ IsRenderTick /\ obs.rd.held
    /\ ppu.scanline >= 0 /\ ppu.scanline < HEIGHT /\ ppu.dot = LastDot

\* An A12 sample that is high after a low one.
RisesAt(p, mp) == ~mp.prevA12 /\ A12ThisDot(p) /\ ~OddFrameSkip(p)

\* C40: with rendering enabled and PPUCTRL and PPUMASK constant since the
\* start of the frame, the IRQ counter of the MMC3 has been clocked exactly
\* once when a visible scanline ends; and a tick whose A12 rise follows
\* fewer than 8 low dots does not clock it.
C40_OncePerLine ==
    /\ [][EndsHeldLine => obs.rd.clocks + ClocksOf(mapper, mapper') = 1]_vars
    /\ [][IsRenderTick /\ RisesAt(ppu, mapper) /\ mapper.a12LowCycles < A12Filter
            /\ ppu.dot # 260
            => ~Clocked(mapper, mapper')]_vars

(***************************************************************************)
(* The two hooks of the MMC3 called in any order with any argument, and    *)
(* CPU writes to its IRQ registers in between.  An observer filters the    *)
(* A12 samples on its own (a rise is valid after 8 low samples) and notes  *)
(* whether a valid rise has been seen since the last dot-260 call.         *)
(***************************************************************************)
HookWrites == {<<49152, 2>>, <<49153, 0>>, <<57344, 0>>, <<57345, 0>>}

NewHookObs ==
    [lows |-> 0, high |-> FALSE, rose |-> FALSE, call |-> "none", arg |-> FALSE,
     par |-> 0]

InitHook ==
    /\ prg = CpuVectors
    /\ LET m == powerOn(<<>>, NewMapper("MMC3"))
       IN  /\ cpu = m.cpu
           /\ sysRAM = m.ram
           /\ ppu = m.ppu
           /\ oam = m.oam
           /\ apu = m.apu
           /\ mapper = m.map
    /\ nes = NewNES
    /\ obs = [hk |-> NewHookObs] @@ NewObs

\* cart->mapper->ppuA12Clock(level)
HookSample ==
    /\ \E level \in BOOLEAN :
          /\ mapper' = ppuA12Clock(mapper, level)
          /\ obs' = [obs EXCEPT
                !.hk.lows = IF level THEN 0 ELSE IF @ < A12Filter THEN @ + 1 ELSE @,
                !.hk.high = level,
                !.hk.rose = @ \/ (level /\ ~obs.hk.high /\ obs.hk.lows >= A12Filter),
                !.hk.call = "a12", !.hk.arg = level, !.hk.par = 1 - @]
    /\ UNCHANGED <<cpu, sysRAM, ppu, oam, apu, prg, nes>>

\* cart->mapper->ppuOnScanlineDot260(rendering)
HookDot260 ==
    /\ \E rendering \in BOOLEAN :
          /\ mapper' = ppuOnScanlineDot260(mapper, rendering)
          /\ obs' = [obs EXCEPT !.hk.rose = FALSE, !.hk.call = "dot260",
                                !.hk.arg = rendering, !.hk.par = 1 - @]
    /\ UNCHANGED <<cpu, sysRAM, ppu, oam, apu, prg, nes>>

\* Bus::cpuWrite to an IRQ register of the mapper.
HookWrite ==
    /\ \E w \in HookWrites :
          /\ mapper' = mapperWrite(mapper, w[1], w[2])
          /\ obs' = [obs EXCEPT !.hk.call = "write", !.hk.arg = FALSE, !.hk.par = 1 - @]
    /\ UNCHANGED <<cpu, sysRAM, ppu, oam, apu, prg, nes>>

NextHook == HookSample \/ HookDot260 \/ HookWrite

SpecHook == InitHook /\ [][NextHook]_vars

IsDot260Call == obs'.hk.par # obs.hk.par /\ obs'.hk.call = "dot260"

\* The counter clock: reload if a reload is pending or the counter is 0,
\* else decrement; then the IRQ flag if the counter is 0 and IRQs are on.
CounterClocked(mp, mq) ==
    /\ mq.irqCounter = IF mp.irqReload \/ mp.irqCounter = 0 THEN mp.irqLatch
                       ELSE mp.irqCounter - 1
    /\ mq.irqReload = FALSE
    /\ mq.irqFlag = (mp.irqFlag \/ (mq.irqCounter = 0 /\ mp.irqEnable))

CounterKept(mp, mq) ==
    /\ mq.irqCounter = mp.irqCounter
    /\ mq.irqReload = mp.irqReload
    /\ mq.irqFlag = mp.irqFlag

\* C34: a dot-260 call with rendering = false only clears the saw-rise
\* flag; with rendering = true it applies the counter clock exactly when
\* no valid filtered A12 rise has been seen since the previous dot-260
\* call, and keeps counter, reload flag and IRQ flag otherwise; either way
\* the saw-rise flag is clear afterwards and nothing else changes.
C34_Dot260Hook ==
    [][IsDot260Call
         => /\ ~mapper'.sawRiseThisLine
            /\ [mapper' EXCEPT !.irqCounter = 0, !.irqReload = FALSE, !.irqFlag = FALSE,
                               !.sawRiseThisLine = FALSE]
                 = [mapper EXCEPT !.irqCounter = 0, !.irqReload = FALSE,
                                  !.irqFlag = FALSE, !.sawRiseThisLine = FALSE]
            /\ IF obs'.hk.arg /\ ~obs.hk.rose
               THEN CounterClocked(mapper, mapper')
               ELSE CounterKept(mapper, mapper')]_vars

\* A dot-260 call with rendering has just been made with A12 high, IRQs
\* enabled, and the counter under way from a latch of 2.
C34_Witness ==
    /\ obs.hk.call = "dot260" /\ obs.hk.arg
    /\ mapper.irqCounter = 1 /\ mapper.irqLatch = 2 /\ ~mapper.irqFlag
    /\ mapper.irqEnable /\ mapper.prevA12

(***************************************************************************)
(* The PRG banking of the MMC1: scripts of CPU writes to its registers     *)
(* and CPU reads of $8000-$FFFF, on cartridges of 1, 2 and 8 PRG banks.    *)
(* A script commits values to the four registers, leaves 0 or 3 bits in    *)
(* the shifter, makes a write with bit 7 set, reads, commits another PRG   *)
(* bank, reads, commits the control register, and reads again.             *)
(***************************************************************************)
\* The byte at an offset of the PRG ROM: its bank and the low bits of the
\* offset.
Mmc1Prg(off) == (off \div 16384) * 16 + (off % 16)

\* MapperMMC1::cpuRead of $8000-$FFFF; mp.banks is prg.size() / 0x4000.
rd16(mp, bank, off) ==
    Mmc1Prg((((bank % mp.banks) * 16384) + (off % 16384)) % (mp.banks * 16384))

\* A read that takes the bank of $C000-$FFFF from the PRG register.
mmc1CpuReadSwitchHigh(mp, a) ==
    IF a < 49152 THEN rd16(mp, 0, a - 32768)
    ELSE rd16(mp, mp.prgBank % 16, a - 49152)

mmc1CpuRead(mp, a) ==
    LET prgMode == Field(mp.ctrl, 2, 2) IN
    IF prgMode <= 1 THEN
        LET bank32 == (mp.prgBank % 16) - (mp.prgBank % 2) IN
        IF a < 49152 THEN rd16(mp, bank32, a - 32768)
        ELSE rd16(mp, bank32 + 1, a - 49152)
    ELSE IF prgMode = 2 THEN
        IF a < 49152 THEN rd16(mp, 0, a - 32768)
        ELSE rd16(mp, mp.prgBank % 16, a - 49152)
    ELSE
        IF a < 49152 THEN rd16(mp, mp.prgBank % 16, a - 32768)
        ELSE rd16(mp, mp.banks - 1, a - 49152)

Commit5(a, d) == [i \in 1..5 |-> <<0, "write", a, BitAt(d, i - 1)>>]

PrgReads == [i \in 1..4 |-> <<0, "read", <<32768, 49151, 49152, 65535>>[i], 0>>]

PrgCtrls == {0, 2, 8, 19}
PrgBanks == {5, 16, 31}
PrgResets == {<<32768, 128>>, <<65535, 255>>}

PrgScripts ==
    {Commit5(32768, c) \o Commit5(40960, 21) \o Commit5(49152, 10) \o Commit5(57344, d)
        \o SubSeq(Commit5(40960, 7), 1, k) \o <<<<0, "write", r[1], r[2]>>>> \o PrgReads
        \o Commit5(57344, d2) \o PrgReads \o Commit5(32768, 0) \o PrgReads :
        c \in PrgCtrls, d \in PrgBanks, k \in {0, 3}, r \in PrgResets, d2 \in {2, 15}}

\* What an observer has seen: the writes with bit 7 clear since the last
\* commit or reset, and whether a write with bit 7 set has been made with
\* no commit to the control register since.
NewPrgObs == [bits |-> 0, fixed |-> FALSE]

InitMmc1Prg ==
    /\ prg = CpuVectors
    /\ \E n \in {1, 2, 8} :
          LET m == powerOn(<<>>, [banks |-> n] @@ NewMMC1)
          IN  /\ cpu = m.cpu
              /\ sysRAM = m.ram
              /\ ppu = m.ppu
              /\ oam = m.oam
              /\ apu = m.apu
              /\ mapper = m.map
    /\ nes = NewNES
    /\ \E sc \in PrgScripts :
          obs = [bk |-> NewPrgObs] @@ [NewObs EXCEPT !.ap.script = sc]

\* Bus::cpuWrite to $8000-$FFFF
PrgWrite ==
    /\ AccessDue
    /\ Head(obs.ap.script)[2] = "write"
    /\ LET a == Head(obs.ap.script)[3]
           v == Head(obs.ap.script)[4]
       IN  /\ mapper' = mmc1Write(mapper, a, v)
           /\ obs' = [obs EXCEPT
                 !.ap.ops = @ + 1, !.ap.op = "write", !.ap.reg = a, !.ap.val = v,
                 !.ap.script = Tail(@),
                 !.bk.bits = IF v >= 128 \/ @ = 4 THEN 0 ELSE @ + 1,
                 !.bk.fixed = IF v >= 128 THEN TRUE
                              ELSE IF obs.bk.bits = 4 /\ a < 40960 THEN FALSE
                              ELSE @]
    /\ UNCHANGED <<cpu, sysRAM, ppu, oam, apu, prg, nes>>

\* Bus::cpuRead of $8000-$FFFF
PrgRead ==
    /\ AccessDue
    /\ Head(obs.ap.script)[2] = "read"
    /\ obs' = [obs EXCEPT
          !.ap.ops = @ + 1, !.ap.op = "read", !.ap.reg = Head(obs.ap.script)[3],
          !.ap.val = mmc1CpuRead(mapper, Head(obs.ap.script)[3]),
          !.ap.script = Tail(@)]
    /\ UNCHANGED <<cpu, sysRAM, ppu, oam, apu, mapper, prg, nes>>

NextMmc1Prg == PrgWrite \/ PrgRead

SpecMmc1Prg == InitMmc1Prg /\ [][NextMmc1Prg]_vars

IsPrgAccess(op) == obs'.ap.ops = obs.ap.ops + 1 /\ obs'.ap.op = op

\* C35: a write to $8000-$FFFF with bit 7 set clears the shifter, sets
\* control bits 2-3 and changes nothing else (control bits 0, 1, 4, both
\* CHR banks, the PRG bank, the PRG-RAM write protection); from then until
\* the next commit to the control register a read of $C000-$FFFF returns
\* the byte of the last 16 KiB bank and a read of $8000-$BFFF the byte of
\* bank (prgBank & $0F) modulo the number of banks.
C35_Mmc1Reset ==
    /\ [][IsPrgAccess("write") /\ obs'.ap.val >= 128
            => mapper' = [mapper EXCEPT !.loadReg = 0, !.loadCount = 0,
                                        !.ctrl = WithField(@, 2, 2, 3)]]_vars
    /\ [][IsPrgAccess("read") /\ obs.bk.fixed
            => obs'.ap.val =
                 IF obs'.ap.reg >= 49152
                 THEN Mmc1Prg((mapper.banks - 1) * 16384 + (obs'.ap.reg - 49152))
                 ELSE Mmc1Prg(((mapper.prgBank % 16) % mapper.banks) * 16384
                              + (obs'.ap.reg - 32768))]_vars

\* After a reset write made in 32 KiB mode with PRG bank 5 committed, on a
\* cartridge of 8 banks, $FFFF has been read from the last bank.
C35_Witness ==
    /\ obs.bk.fixed /\ obs.ap.op = "read" /\ obs.ap.reg = 65535
    /\ obs.ap.val = 7 * 16 + 15
    /\ mapper.prgBank = 5 /\ mapper.ctrl = 14 /\ mapper.chrBank0 = 21

(***************************************************************************)
(* CPU::step on a cartridge whose instructions can acknowledge the IRQ     *)
(* sources: LDA $4015 (APU status) and STA $E000 (MMC3 IRQ disable), with  *)
(* CLI, RTI and STA $E001, and the events of SpecCpu between steps.        *)
(***************************************************************************)
MaxAckSteps == 6

AckInstructions ==
    {<<op, 0, 0>> : op \in {OpRTI, OpCLI}}
    \cup {<<OpLDA, 21, 64>>, <<OpSTA, 0, 224>>, <<OpSTA, 1, 224>>}

\* One call of CPU::step.
AckStep ==
    /\ obs.steps < MaxAckSteps
    /\ \E ins \in AckInstructions \cup {<<OpNOP, 0, 0>>} :
          /\ IF Fetches(M) THEN ins \in AckInstructions /\ FetchOK(M, ins)
             ELSE ins = <<OpNOP, 0, 0>>
          /\ Stepped(step(M, ins))
          /\ prg' = IF Fetches(M) THEN Fetched(cpu.PC, ins) ELSE prg
    /\ UNCHANGED nes

NextAck == AckStep \/ CallNmi \/ FrameIrqRaise \/ MapperClock

SpecAck == InitCpu /\ [][NextAck]_vars

\* C36: a step enters the IRQ sequence only if the mapper IRQ line or the
\* APU IRQ line is asserted at that instruction boundary; a request latched
\* at an earlier boundary is not serviced once its source has been
\* acknowledged.
C36_IrqNeedsLine ==
    [][IsStep /\ obs'.kind = "irq" => irqPending(mapper) \/ irqLine(apu)]_vars

\* C37: dmcIRQ becomes true only on the tick that ends a playing sample
\* (one started with bytes-left > 0) with the loop bit clear and the IRQ
\* enable bit set: never while the DMC has not been started, and not again
\* after a read of $4015 unless a new sample is started and completes.
C37_IrqOnlyAfterSample ==
    [][~apu.dmcIRQ /\ apu'.dmcIRQ
         => /\ IsApuTick
            /\ DmcPlaying(apu) /\ ~DmcPlaying(apu')
            /\ LoopOff /\ IrqOn]_vars

(***************************************************************************)
(* The channel enables: from power-on the program writes $4015, the length *)
(* registers $4003, $4007, $400B and $400F and $4017 = $80 (a half-frame   *)
(* clock), reads $4015 and lets the APU tick, in any order.                *)
(***************************************************************************)
MaxSilenceOps == 5
MaxSilenceTicks == 2

EnableMasks == {0, 5, 10, 15}
LengthRegs == {16387, 16391, 16395, 16399}
SilenceOps ==
    { <<"write", 16405, v>> : v \in EnableMasks }
      \cup { <<"write", r, 8>> : r \in LengthRegs }
      \cup { <<"write", 16407, 128>>, <<"read", 16405, 0>> }

\* The enable bits of the last $4015 write, once there has been one.
NewSilenceObs == [written |-> FALSE, mask |-> 0, status |-> 0]

InitSilence ==
    /\ prg = CpuVectors
    /\ LET m == powerOn(<<>>, NewMapper("NROM"))
       IN  /\ cpu = m.cpu
           /\ sysRAM = m.ram
           /\ ppu = m.ppu
           /\ oam = m.oam
           /\ apu = ChannelAPU
           /\ mapper = m.map
    /\ nes = NewNES
    /\ obs = [sl |-> NewSilenceObs] @@ NewObs

\* apu->tickCPU()
SilenceTick ==
    /\ obs.ap.ticks < MaxSilenceTicks
    /\ apu' = tickCPU(apu)
    /\ obs' = [obs EXCEPT !.ap.ticks = @ + 1, !.ap.op = "tick"]
    /\ UNCHANGED <<cpu, sysRAM, ppu, oam, mapper, prg, nes>>

\* Bus::cpuWrite of an APU register
SilenceWrite ==
    /\ obs.ap.ops < MaxSilenceOps
    /\ \E op \in SilenceOps :
          /\ op[1] = "write"
          /\ SetM(cpuWrite(M, op[2], op[3]))
          /\ obs' = [obs EXCEPT !.ap.ops = @ + 1, !.ap.op = "write",
                                !.ap.reg = op[2], !.ap.val = op[3],
                                !.sl.written = IF op[2] = 16405 THEN TRUE ELSE @,
                                !.sl.mask = IF op[2] = 16405 THEN op[3] ELSE @]
    /\ UNCHANGED <<prg, nes>>

\* Bus::cpuRead of $4015
SilenceRead ==
    /\ obs.ap.ops < MaxSilenceOps
    /\ LET r == cpuRead(M, 16405)
       IN  /\ SetM(r.m)
           /\ obs' = [obs EXCEPT !.ap.ops = @ + 1, !.ap.op = "read",
                                 !.ap.reg = 16405, !.ap.val = r.val,
                                 !.sl.status = r.val]
    /\ UNCHANGED <<prg, nes>>

NextSilence == SilenceTick \/ SilenceWrite \/ SilenceRead

SpecSilence == InitSilence /\ [][NextSilence]_vars

\* The length counter of channel k (0 pulse 1, 1 pulse 2, 2 triangle, 3 noise).
ChannelLength(a, k) ==
    CASE k = 0 -> a.pulse1.lengthCtr
      [] k = 1 -> a.pulse2.lengthCtr
      [] k = 2 -> a.tri.lengthCtr
      [] k = 3 -> a.noise.lengthCtr

\* C38: after a $4015 write whose enable bit of pulse 1, pulse 2, triangle
\* or noise is clear, and until the next $4015 write, the length counter
\* of that channel is 0 and its bit in a $4015 read is 0, whatever is
\* written to $4003, $4007, $400B or $400F in between.
C38_DisabledStaysSilent ==
    obs.sl.written =>
        \A k \in 0..3 :
            ~TestBit(obs.sl.mask, k) =>
                /\ ChannelLength(apu, k) = 0
                /\ ~TestBit(StatusBits(apu), k)
                /\ obs.ap.op = "read" => ~TestBit(obs.ap.val, k)

====
